---- MODULE Spec2Model ----
(***************************************************************************)
(* Model of the rule-extraction-and-review pipeline of S1SharedDocSkill    *)
(* (src/S1SharedDocSkill/src/doc_store.py): Retrieval/Scoring,             *)
(* StandardLocator, RuleExtractor, DiffParser, CodeReviewer and the        *)
(* ReviewReport verdict.                                                   *)
(*                                                                         *)
(* Text is modelled as text: a Python str is a TLA+ string, and the        *)
(* string operations of the code (lower, strip, split, `in`, startswith,   *)
(* the regular expressions) are operators that compute what the code       *)
(* computes.  Non-ASCII vocabulary entries are written as ASCII tokens in  *)
(* braces, e.g. "{jinzhi}" for the two-character word at doc_store.py:2505,*)
(* one token for a word, so that a text holds a word exactly when the      *)
(* token text holds the token; the length of a token is not the length of  *)
(* the word.                                                               *)
(***************************************************************************)
EXTENDS Integers, Sequences, FiniteSets, TLC

VARIABLES
    checklist,    \* CodeReviewer._checklist: None or the list of rules
    reviewOp,     \* the CodeReviewer method called last
    reviewIn,     \* its arguments (and the files it found on disk)
    outcome,      \* "ok", or the exception the call raised
    result,       \* the FileReviewResult returned (review_code_snippet, review_file)
    report,       \* CodeReviewer._report / the ReviewReport returned
    reportDict,   \* the value of ReviewReport.to_dict() on that report
    diffIn,       \* _parse_diff: the diff text parsed last
    diffOut,      \* _parse_diff: the list of files it returned
    searchIn,     \* search_documents: its arguments and the directory tree
    searchOut,    \* search_documents: the dictionary it returned
    extractIn,    \* extract_checklist_from_document: the document read
    extractOut,   \* extract_checklist_from_document: what it returned or raised
    locator,      \* review_code: the StandardLocator it created, after the call
    envelope,     \* review_code: the dictionary it returned
    shared,       \* the shared drive a StandardLocator instance works on
    instance,     \* the fields of that StandardLocator instance
    lastCall,     \* the method of the instance called last and what it returned
    guardIn,      \* normalize_and_validate_path: its arguments and the links of the file system
    guardOut,     \* normalize_and_validate_path: the path it returned or what it raised
    rootFiles,    \* the files under and beside the root of a DocStore: path to content
    uploadIn,     \* DocStore.upload_file: its arguments and the files before the call
    uploadOut,    \* DocStore.upload_file: the dictionary it returned
    locateIn,     \* locate_standard_documents: its arguments and the shared drive
    locateOut,    \* locate_standard_documents: the dictionary it returned
    chainDrive,   \* locate, extract, review in a row: the shared drive
    chainLocated, \* what locate_standard_documents returned on it
    chainExtracted,\* the document extracted and what the extraction returned
    chainReviewed,\* the code reviewed against the extracted rules and the result
    entryIn,      \* the DocStore method called and its arguments, or None
    entryOut,     \* the dictionary the method returned, or None
    violationIn,  \* a rule checked against code: the mode of the review, the rule and the code
    violationOut, \* the value of the predicate or the issues of the review
    readIn,       \* read_text_file: the file at the path and the two limits
    readOut,      \* read_text_file: the dictionary it returned or what it raised
    placedIn,     \* search_documents on one tree under two roots: the tree, the two locations, the keywords
    placedOut     \* the two dictionaries returned

reviewVars == <<checklist, reviewOp, reviewIn, outcome, result, report, reportDict>>
diffVars == <<diffIn, diffOut>>
searchVars == <<searchIn, searchOut>>
extractVars == <<extractIn, extractOut>>
pipelineVars == <<locator, envelope>>
locatorVars == <<shared, instance, lastCall>>
guardVars == <<guardIn, guardOut>>
uploadVars == <<rootFiles, uploadIn, uploadOut>>
locateVars == <<locateIn, locateOut>>
chainVars == <<chainDrive, chainLocated, chainExtracted, chainReviewed>>
entryVars == <<entryIn, entryOut>>
violationVars == <<violationIn, violationOut>>
readVars == <<readIn, readOut>>
placedVars == <<placedIn, placedOut>>

vars == <<reviewVars, diffVars, searchVars, extractVars, pipelineVars, locatorVars, guardVars, uploadVars, locateVars, chainVars, entryVars, violationVars, readVars, placedVars>>

-----------------------------------------------------------------------------
(* Optional values (Python None) and small helpers.                        *)

\* the element of a set of one element. Only({F(v) : v \in {e}}) is F(e), with
\* e evaluated once and v bound to its value; nested, the bindings read from
\* the last one upward
Only(S) == CHOOSE x \in S : TRUE

None == <<>>
Some(v) == <<v>>

SeqsUpTo(S, n) == UNION {[1..k -> S] : k \in 0..n}

Min(S) == CHOOSE x \in S : \A y \in S : x <= y
Max(S) == CHOOSE x \in S : \A y \in S : x >= y

RECURSIVE SumSeq(_)
SumSeq(s) == IF s = <<>> THEN 0 ELSE Head(s) + SumSeq(Tail(s))

RECURSIVE Flatten(_)
Flatten(ss) == IF ss = <<>> THEN <<>> ELSE Head(ss) \o Flatten(Tail(ss))

-----------------------------------------------------------------------------
(* Python str operations.                                                  *)

Ch(s, i) == SubSeq(s, i, i)
Rest(s, i) == SubSeq(s, i, Len(s))

UpperChars == "ABCDEFGHIJKLMNOPQRSTUVWXYZ"
LowerChars == "abcdefghijklmnopqrstuvwxyz"
Digits == "0123456789"

UpperSet == {Ch(UpperChars, i) : i \in 1..Len(UpperChars)}
LowerOf ==
    [c \in UpperSet |->
        Ch(LowerChars, CHOOSE i \in 1..Len(UpperChars) : Ch(UpperChars, i) = c)]

LowerCh(c) == IF c \in UpperSet THEN LowerOf[c] ELSE c

\* str.lower()
RECURSIVE Lower(_)
Lower(s) == IF s = "" THEN "" ELSE LowerCh(Ch(s, 1)) \o Lower(Rest(s, 2))

\* needle in hay
Contains(hay, needle) ==
    \E i \in 0..(Len(hay) - Len(needle)) : SubSeq(hay, i + 1, i + Len(needle)) = needle

\* s.startswith(p)
StartsWith(s, p) == Len(s) >= Len(p) /\ SubSeq(s, 1, Len(p)) = p

IsSpace(c) == c \in {" ", "\t", "\n", "\r"}

RECURSIVE LStrip(_)
LStrip(s) == IF s # "" /\ IsSpace(Ch(s, 1)) THEN LStrip(Rest(s, 2)) ELSE s

RECURSIVE RStrip(_)
RStrip(s) ==
    IF s # "" /\ IsSpace(Ch(s, Len(s))) THEN RStrip(SubSeq(s, 1, Len(s) - 1)) ELSE s

\* str.strip()
Strip(s) == RStrip(LStrip(s))

\* s.split('\n')
\* s.find(c, p) for a character c: its first position from p on, or 0
RECURSIVE FindCh(_, _, _)
FindCh(s, c, p) ==
    IF p > Len(s) THEN 0 ELSE IF Ch(s, p) = c THEN p ELSE FindCh(s, c, p + 1)

RECURSIVE SplitLines(_)
SplitLines(s) ==
    LET i == FindCh(s, "\n", 1)
    IN  IF i = 0 THEN <<s>>
        ELSE <<SubSeq(s, 1, i - 1)>> \o SplitLines(Rest(s, i + 1))

\* '\n'.join(lines)
RECURSIVE JoinLines(_)
JoinLines(ls) ==
    IF ls = <<>> THEN ""
    ELSE IF Len(ls) = 1 THEN ls[1]
    ELSE ls[1] \o "\n" \o JoinLines(Tail(ls))

DigitSet == {Ch(Digits, i) : i \in 1..Len(Digits)}
IsDigit(c) == c \in DigitSet
DigitVal(c) == (CHOOSE i \in 1..Len(Digits) : Ch(Digits, i) = c) - 1

\* the number of leading decimal digits of s from position p (regex \d+)
RECURSIVE SpanDigits(_, _)
SpanDigits(s, p) ==
    IF p <= Len(s) /\ IsDigit(Ch(s, p)) THEN 1 + SpanDigits(s, p + 1) ELSE 0

\* int(s) for a string of decimal digits
RECURSIVE ParseInt(_)
ParseInt(s) ==
    IF s = "" THEN 0
    ELSE ParseInt(SubSeq(s, 1, Len(s) - 1)) * Len(Digits) + DigitVal(Ch(s, Len(s)))

\* str(n) for n >= 0
RECURSIVE IntToStr(_)
IntToStr(n) ==
    IF n < Len(Digits) THEN Ch(Digits, n + 1)
    ELSE IntToStr(n \div Len(Digits)) \o Ch(Digits, (n % Len(Digits)) + 1)

-----------------------------------------------------------------------------
(* ReviewIssue, FileReviewResult, ReviewReport (doc_store.py:1861-2066).   *)
(* An issue keeps the fields the report counts and cites; line_start is 0  *)
(* where the code leaves it None.                                          *)

ReviewIssue(rule_id, severity, file_path, line_start) ==
    [rule_id |-> rule_id, severity |-> severity,
     file_path |-> file_path, line_start |-> line_start]

FileReviewResult(file_path, issues) == [file_path |-> file_path, issues |-> issues]

CountSeverity(issues, sev) == Cardinality({i \in 1..Len(issues) : issues[i].severity = sev})

error_count(r) == CountSeverity(r.issues, "error")
warning_count(r) == CountSeverity(r.issues, "warning")
info_count(r) == CountSeverity(r.issues, "info")

\* FileReviewResult.has_blocking_issues
FileHasBlockingIssues(r) == error_count(r) > 0

total_issues(rep) == SumSeq([i \in 1..Len(rep) |-> Len(rep[i].issues)])
total_errors(rep) == SumSeq([i \in 1..Len(rep) |-> error_count(rep[i])])
total_warnings(rep) == SumSeq([i \in 1..Len(rep) |-> warning_count(rep[i])])
total_infos(rep) == SumSeq([i \in 1..Len(rep) |-> info_count(rep[i])])

\* a report that looks at its first file only to decide whether it blocks
FirstFileHasBlockingIssues(rep) == rep # <<>> /\ FileHasBlockingIssues(rep[1])

\* ReviewReport.has_blocking_issues: any(r.has_blocking_issues for r in file_results)
has_blocking_issues(rep) == \E i \in 1..Len(rep) : FileHasBlockingIssues(rep[i])

\* the "verdict" entry of ReviewReport.to_dict()
Verdict(rep) ==
    IF has_blocking_issues(rep) THEN "BLOCKED"
    ELSE IF total_warnings(rep) > 0 THEN "PASSED_WITH_WARNINGS"
    ELSE "PASSED"

\* ReviewReport.to_dict()["summary"]; rep is the list file_results
ReportToDict(rep) ==
    [total_files |-> Len(rep),
     files_with_issues |-> Cardinality({i \in 1..Len(rep) : rep[i].issues # <<>>}),
     clean_files |-> Cardinality({i \in 1..Len(rep) : rep[i].issues = <<>>}),
     total_issues |-> total_issues(rep),
     errors |-> total_errors(rep),
     warnings |-> total_warnings(rep),
     infos |-> total_infos(rep),
     has_blocking_issues |-> has_blocking_issues(rep),
     verdict |-> Verdict(rep)]

-----------------------------------------------------------------------------
(* CodeReviewer (doc_store.py:2135-2577).                                  *)

\* negative_keywords of _is_violation_pattern; the first three are the
\* non-ASCII entries of the list
NegativeKeywords ==
    <<"{jinzhi}", "{bude}", "{buyunxu}", "forbidden", "never", "must not", "shall not">>

\* a predicate for which the presence of the keyword is a violation
IsViolationPatternOfKeyword(rule, line, keyword) == Contains(Lower(line), Lower(keyword))

\* CodeReviewer._is_violation_pattern(rule, line, keyword)
IsViolationPattern(rule, line, keyword) ==
    \/ \E k \in 1..Len(rule.counter_examples) :
          LET line_normalized == Lower(Strip(line))
              counter_normalized == Lower(Strip(rule.counter_examples[k]))
          IN  \/ Contains(line_normalized, counter_normalized)
              \/ Contains(counter_normalized, line_normalized)
    \/ /\ rule.severity = "error"
       /\ \E n \in 1..Len(NegativeKeywords) :
             Contains(Lower(rule.description), NegativeKeywords[n])

\* the lines of the code on which the inner loop of _check_rule_against_code
\* reaches the append for this keyword
KeywordHitLines(rule, lines, keyword) ==
    {n \in 1..Len(lines) :
        /\ Contains(Lower(lines[n]), Lower(keyword))
        /\ IsViolationPattern(rule, lines[n], keyword)}

\* one pass of the outer loop of _check_rule_against_code: the inner loop over
\* the lines appends one issue at the first hit and breaks
KeywordIssues(rule, lines, keyword, file_path) ==
    LET hits == KeywordHitLines(rule, lines, keyword)
    IN  IF hits = {} THEN <<>>
        ELSE <<ReviewIssue(rule.rule_id, rule.severity, file_path, Min(hits))>>

\* CodeReviewer._check_rule_against_code(rule, code, file_path, language)
CheckRuleAgainstCode(rule, code, file_path) ==
    LET lines == SplitLines(code)
    IN  Flatten([k \in 1..Len(rule.keywords) |->
                    KeywordIssues(rule, lines, rule.keywords[k], file_path)])

\* CodeReviewer._check_rule_against_line(rule, line, file_path, line_num):
\* the issue, or the empty list for None
CheckRuleAgainstLine(rule, line, file_path, line_num) ==
    IF \E k \in 1..Len(rule.keywords) :
          /\ Contains(Lower(line), Lower(rule.keywords[k]))
          /\ IsViolationPattern(rule, line, rule.keywords[k])
    THEN <<ReviewIssue(rule.rule_id, rule.severity, file_path, line_num)>>
    ELSE <<>>

\* CodeReviewer.review_code_snippet(code, file_path), given the checklist
ReviewCodeSnippet(rules, code, file_path) ==
    FileReviewResult(file_path,
        Flatten([r \in 1..Len(rules) |-> CheckRuleAgainstCode(rules[r], code, file_path)]))

\* a failure reported as a warning
SystemWarningResult(file_path) ==
    FileReviewResult(file_path, <<ReviewIssue("SYSTEM", "warning", file_path, 0)>>)

\* the synthetic result of review_file for a path it cannot read
SystemResult(file_path) ==
    FileReviewResult(file_path, <<ReviewIssue("SYSTEM", "error", file_path, 0)>>)

\* what review_file finds at a path: no such path, a directory, a regular file
\* whose open/read raises, or a regular file with its decoded content
FileMissing == [kind |-> "missing", content |-> ""]
FileIsDir == [kind |-> "dir", content |-> ""]
FileUnreadable == [kind |-> "unreadable", content |-> ""]
FileWith(content) == [kind |-> "file", content |-> content]

\* os.path.isfile(full_path)
IsFile(st) == st.kind \in {"file", "unreadable"}

\* CodeReviewer.review_file: TRUE when the call returns the synthetic result
\* before it needs the checklist
ReviewFileFails(st) == ~IsFile(st) \/ st.kind = "unreadable"

\* CodeReviewer.review_file(file_path), given the checklist and the file found
ReviewFile(rules, file_path, st) ==
    IF ~IsFile(st) THEN SystemResult(file_path)
    ELSE IF st.kind = "unreadable" THEN SystemResult(file_path)
    ELSE ReviewCodeSnippet(rules, st.content, file_path)

\* a review of several files that keeps the files with issues only
ReviewFilesWithIssues(rules, file_paths, disk) ==
    SelectSeq([i \in 1..Len(file_paths) |-> ReviewFile(rules, file_paths[i], disk[file_paths[i]])],
              LAMBDA r : r.issues # <<>>)

\* CodeReviewer.review_files(file_paths): the file_results of the report
ReviewFiles(rules, file_paths, disk) ==
    [i \in 1..Len(file_paths) |-> ReviewFile(rules, file_paths[i], disk[file_paths[i]])]

-----------------------------------------------------------------------------
(* CodeReviewer._parse_diff (doc_store.py:2523-2577).                      *)

DiffGitPrefix == "diff --git a/"
DiffGitMiddle == " b/"

\* the positions at which file_header_pattern, ^diff --git a/(.+) b/(.+)$,
\* can split the line into its two non-empty groups
FileHeaderSplits(line) ==
    {p \in (Len(DiffGitPrefix) + 2)..(Len(line) - Len(DiffGitMiddle)) :
        SubSeq(line, p, p + Len(DiffGitMiddle) - 1) = DiffGitMiddle}

\* file_header_pattern.match(line)
FileHeaderMatches(line) == StartsWith(line, DiffGitPrefix) /\ FileHeaderSplits(line) # {}

\* file_match.group(2): the first group is greedy, so the last split is taken
FileHeaderPath(line) == Rest(line, Max(FileHeaderSplits(line)) + Len(DiffGitMiddle))

\* the position after an optional (?:,\d+)? that starts at p
SkipOptionalCount(line, p) ==
    IF Ch(line, p) = "," /\ SpanDigits(line, p + 1) > 0
    THEN p + 1 + SpanDigits(line, p + 1)
    ELSE p

HunkPrefix == "@@ -"
HunkSuffix == " @@"

\* the position of the new-side start in a line that begins like a hunk header
HunkNewStartPos(line) ==
    SkipOptionalCount(line, Len(HunkPrefix) + 1 + SpanDigits(line, Len(HunkPrefix) + 1)) + 2

\* hunk_pattern.match(line), ^@@ -\d+(?:,\d+)? \+(\d+)(?:,\d+)? @@
HunkHeaderMatches(line) ==
    /\ StartsWith(line, HunkPrefix)
    /\ SpanDigits(line, Len(HunkPrefix) + 1) > 0
    /\ LET q == HunkNewStartPos(line)
       IN  /\ SubSeq(line, q - 2, q - 1) = " +"
           /\ SpanDigits(line, q) > 0
           /\ LET e == SkipOptionalCount(line, q + SpanDigits(line, q))
              IN  SubSeq(line, e, e + Len(HunkSuffix) - 1) = HunkSuffix

\* int(hunk_match.group(1))
HunkNewStart(line) ==
    LET q == HunkNewStartPos(line)
    IN  ParseInt(SubSeq(line, q, q + SpanDigits(line, q) - 1))

\* the test of the first branch of the if/elif chain: an added line
IsAddedLine(line) == StartsWith(line, "+") /\ ~StartsWith(line, "+++")

\* the body of the for loop of _parse_diff, on the loop state
\* st = [files, current_file, current_line_num]
ParseDiffStep(st, line) ==
    IF FileHeaderMatches(line)
    THEN [files |-> st.files \o st.current_file,
          current_file |-> Some([path |-> FileHeaderPath(line), added_lines |-> <<>>]),
          current_line_num |-> st.current_line_num]
    ELSE IF HunkHeaderMatches(line)
    THEN [st EXCEPT !.current_line_num = HunkNewStart(line)]
    ELSE IF st.current_file # None /\ IsAddedLine(line)
    THEN [st EXCEPT
            !.current_file[1].added_lines =
                Append(@, [line_num |-> st.current_line_num, content |-> Rest(line, 2)]),
            !.current_line_num = @ + 1]
    ELSE IF st.current_file # None /\ StartsWith(line, " ")
    THEN [st EXCEPT !.current_line_num = @ + 1]
    ELSE st

RECURSIVE ParseDiffLoop(_, _)
ParseDiffLoop(st, lines) ==
    IF lines = <<>> THEN st ELSE ParseDiffLoop(ParseDiffStep(st, Head(lines)), Tail(lines))

\* CodeReviewer._parse_diff(diff_content)
ParseDiff(diff_content) ==
    LET st == ParseDiffLoop([files |-> <<>>, current_file |-> None, current_line_num |-> 0],
                            SplitLines(diff_content))
    IN  st.files \o st.current_file

\* the inner loops of review_diff for one file of the diff: every added line
\* against every rule
DiffFileIssues(rules, file_info) ==
    Flatten([l \in 1..Len(file_info.added_lines) |->
        Flatten([r \in 1..Len(rules) |->
            CheckRuleAgainstLine(rules[r], file_info.added_lines[l].content,
                                 file_info.path, file_info.added_lines[l].line_num)])])

\* a pass of review_diff that adds the result of every changed file
DiffFileResultAlways(rules, file_info) ==
    <<FileReviewResult(file_info.path, DiffFileIssues(rules, file_info))>>

\* one pass of the outer loop of review_diff: the result added to the report,
\* or nothing
DiffFileResult(rules, file_info) ==
    LET issues == DiffFileIssues(rules, file_info)
    IN  IF file_info.added_lines = <<>> THEN <<>>
        ELSE IF issues = <<>> THEN <<>>
        ELSE <<FileReviewResult(file_info.path, issues)>>

\* CodeReviewer.review_diff(diff_content): the file_results of the report
ReviewDiff(rules, diff_content) ==
    LET diff_files == ParseDiff(diff_content)
    IN  Flatten([f \in 1..Len(diff_files) |-> DiffFileResult(rules, diff_files[f])])

-----------------------------------------------------------------------------
(* Inputs of the review operations.                                        *)

MaxRules == 2       \* rules in a checklist
MaxLines == 2       \* lines of a code snippet
MaxPaths == 2       \* paths given to review_files
MaxDiffLen == 4     \* file headers, hunk headers and hunk lines of a diff

StandardRule(rule_id, keywords, severity, description, counter_examples) ==
    [rule_id |-> rule_id, keywords |-> keywords, severity |-> severity,
     description |-> description, counter_examples |-> counter_examples]

\* error + prohibition term: every keyword hit is a violation; two keywords
RuleForbidden ==
    StandardRule("STD_001", <<"Foo", "bar">>, "error", "Foo is FORBIDDEN in bar", <<>>)
\* a warning that fires through its counter-example only
RuleWarn == StandardRule("STD_002", <<"bar">>, "warning", "should avoid bar", <<" foo bar ">>)
\* an info rule with a counter-example
RuleInfo == StandardRule("STD_003", <<"y">>, "info", "note: y is optional", <<"y = 1">>)

RuleSet == {RuleForbidden, RuleWarn, RuleInfo}

Checklists == SeqsUpTo(RuleSet, MaxRules)

LineSet == {"Foo bar", "  FOO()", "y = 1"}
Codes == {JoinLines(ls) : ls \in SeqsUpTo(LineSet, MaxLines)}

Paths == {"a.py", "b.py"}
FileContents == {"Foo bar", "y = 1\nfoo BAR"}
FileStates == {FileMissing, FileIsDir, FileUnreadable} \cup {FileWith(c) : c \in FileContents}

(* A diff is generated from what it means and rendered as git prints it.   *)
(* A "file" item is the header of a changed file: the diff --git line, the *)
(* two marker lines and the header of the file's first hunk; a "hunk" item *)
(* is the header of a further hunk; the other items are hunk lines that    *)
(* add, keep or remove a line of the given content.                        *)
FirstHunkStart == 10
LaterHunkStart == 1
DiffFile(path) == [kind |-> "file", path |-> path, start |-> FirstHunkStart, content |-> ""]
DiffHunk(start) == [kind |-> "hunk", path |-> "", start |-> start, content |-> ""]
DiffLine(kind, content) == [kind |-> kind, path |-> "", start |-> 0, content |-> content]

DiffItems ==
    {DiffFile(p) : p \in Paths} \cup {DiffHunk(LaterHunkStart)}
    \cup {DiffLine("added", "Foo bar"), DiffLine("added", "++Foo;"),
          DiffLine("added", "y = 1"),
          DiffLine("context", "Foo bar"), DiffLine("removed", "Foo bar")}

\* a diff starts with the header of a file
WellFormedDiff(items) == items # <<>> => items[1].kind = "file"

RenderHunkHeader(start) ==
    HunkPrefix \o IntToStr(start) \o ",3 +" \o IntToStr(start) \o ",4" \o HunkSuffix

RenderDiffItem(item) ==
    CASE item.kind = "file" ->
            DiffGitPrefix \o item.path \o DiffGitMiddle \o item.path
            \o "\n--- a/" \o item.path \o "\n+++ b/" \o item.path
            \o "\n" \o RenderHunkHeader(item.start)
      [] item.kind = "hunk" -> RenderHunkHeader(item.start)
      [] item.kind = "added" -> "+" \o item.content
      [] item.kind = "context" -> " " \o item.content
      [] item.kind = "removed" -> "-" \o item.content

RenderDiff(items) == JoinLines([i \in 1..Len(items) |-> RenderDiffItem(items[i])])

DiffInputs == {items \in SeqsUpTo(DiffItems, MaxDiffLen) : WellFormedDiff(items)}

\* the diffs given to review_diff: one hunk per file, no removed lines
ReviewDiffInputs ==
    {items \in DiffInputs : \A i \in 1..Len(items) : items[i].kind \notin {"hunk", "removed"}}

-----------------------------------------------------------------------------
(* The calls of a CodeReviewer built with a checklist, or with neither a   *)
(* checklist nor a locator (ensure_checklist then raises RuntimeError).    *)
(* The code is synchronous: a call is made when the previous one has       *)
(* returned and the caller has taken its result (reviewOp = "none").       *)

NoDiff == diffIn = None /\ diffOut = None

NoSearch == searchIn = None /\ searchOut = None

NoExtract == extractIn = None /\ extractOut = None

NoPipeline == locator = None /\ envelope = None

NoLocator == shared = None /\ instance = None /\ lastCall = None

NoGuard == guardIn = None /\ guardOut = None

NoUpload == rootFiles = None /\ uploadIn = None /\ uploadOut = None

NoLocate == locateIn = None /\ locateOut = None

NoChain == chainDrive = None /\ chainLocated = None /\ chainExtracted = None /\ chainReviewed = None

NoEntry == entryIn = None /\ entryOut = None

NoViolation == violationIn = None /\ violationOut = None

NoRead == readIn = None /\ readOut = None

NoPlaced == placedIn = None /\ placedOut = None

InitReview ==
    /\ checklist \in {None} \cup {Some(c) : c \in Checklists}
    /\ reviewOp = "none"
    /\ reviewIn = None
    /\ outcome = "ok"
    /\ result = None
    /\ report = None
    /\ reportDict = None
    /\ NoDiff
    /\ NoSearch
    /\ NoExtract
    /\ NoPipeline
    /\ NoLocator
    /\ NoGuard
    /\ NoUpload
    /\ NoLocate
    /\ NoChain
    /\ NoEntry
    /\ NoViolation
    /\ NoRead
    /\ NoPlaced

\* CodeReviewer.ensure_checklist() with no locator
EnsureChecklistRaises == checklist = None

Raised(op, in) ==
    /\ reviewOp' = op
    /\ reviewIn' = in
    /\ outcome' = "RuntimeError"
    /\ result' = None
    /\ report' = None
    /\ reportDict' = None
    /\ UNCHANGED <<checklist, diffVars, searchVars, extractVars, pipelineVars, locatorVars, guardVars, uploadVars, locateVars, chainVars, entryVars, violationVars, readVars, placedVars>>

Returned(op, in, res, rep) ==
    /\ reviewOp' = op
    /\ reviewIn' = in
    /\ outcome' = "ok"
    /\ result' = res
    /\ report' = rep
    /\ reportDict' = None
    /\ UNCHANGED <<checklist, diffVars, searchVars, extractVars, pipelineVars, locatorVars, guardVars, uploadVars, locateVars, chainVars, entryVars, violationVars, readVars, placedVars>>

ReviewCodeSnippetCall ==
    /\ reviewOp = "none"
    /\ \E code \in Codes :
        LET in == [code |-> code, file_path |-> "<snippet>"]
        IN  IF EnsureChecklistRaises
            THEN Raised("review_code_snippet", in)
            ELSE Returned("review_code_snippet", in,
                          Some(ReviewCodeSnippet(checklist[1], code, "<snippet>")), None)

ReviewFileCall ==
    /\ reviewOp = "none"
    /\ \E file_path \in Paths, st \in FileStates :
        LET in == [file_path |-> file_path, st |-> st]
        IN  IF ~ReviewFileFails(st) /\ EnsureChecklistRaises
            THEN Raised("review_file", in)
            ELSE Returned("review_file", in,
                          Some(ReviewFile(IF checklist = None THEN <<>> ELSE checklist[1],
                                          file_path, st)), None)

ReviewFilesCall ==
    /\ reviewOp = "none"
    /\ \E file_paths \in SeqsUpTo(Paths, MaxPaths), disk \in [Paths -> FileStates] :
        LET in == [file_paths |-> file_paths, disk |-> disk]
        IN  IF EnsureChecklistRaises
            THEN Raised("review_files", in)
            ELSE Returned("review_files", in, None,
                          Some(ReviewFiles(checklist[1], file_paths, disk)))

ReviewDiffCall ==
    /\ reviewOp = "none"
    /\ \E items \in ReviewDiffInputs :
        LET in == [items |-> items, diff_content |-> RenderDiff(items)]
        IN  IF EnsureChecklistRaises
            THEN Raised("review_diff", in)
            ELSE Returned("review_diff", in, None,
                          Some(ReviewDiff(checklist[1], RenderDiff(items))))

\* ReviewReport.to_dict() on the report returned
ToDictCall ==
    /\ report # None
    /\ reportDict = None
    /\ reportDict' = Some(ReportToDict(report[1]))
    /\ UNCHANGED <<checklist, reviewOp, reviewIn, outcome, result, report, diffVars, searchVars, extractVars, pipelineVars, locatorVars, guardVars, uploadVars, locateVars, chainVars, entryVars, violationVars, readVars, placedVars>>

\* the caller takes the result; the reviewer keeps its checklist
ReviewReturn ==
    /\ reviewOp # "none"
    /\ reviewOp' = "none"
    /\ reviewIn' = None
    /\ outcome' = "ok"
    /\ result' = None
    /\ report' = None
    /\ reportDict' = None
    /\ UNCHANGED <<checklist, diffVars, searchVars, extractVars, pipelineVars, locatorVars, guardVars, uploadVars, locateVars, chainVars, entryVars, violationVars, readVars, placedVars>>

NextReview ==
    \/ ReviewReturn
    \/ ReviewCodeSnippetCall
    \/ ReviewFileCall
    \/ ReviewFilesCall
    \/ ReviewDiffCall
    \/ ToDictCall

SpecReview == InitReview /\ [][NextReview]_vars

-----------------------------------------------------------------------------
(* _parse_diff alone.                                                      *)

NoReview ==
    /\ checklist = None
    /\ reviewOp = "none"
    /\ reviewIn = None
    /\ outcome = "ok"
    /\ result = None
    /\ report = None
    /\ reportDict = None

InitDiff == NoReview /\ NoDiff /\ NoSearch /\ NoExtract /\ NoPipeline /\ NoLocator /\ NoGuard /\ NoUpload /\ NoLocate /\ NoChain /\ NoEntry /\ NoViolation /\ NoRead /\ NoPlaced

ParseDiffCall ==
    /\ diffIn = None
    /\ \E items \in DiffInputs :
        /\ diffIn' = Some([items |-> items, diff_content |-> RenderDiff(items)])
        /\ diffOut' = Some(ParseDiff(RenderDiff(items)))
        /\ UNCHANGED <<reviewVars, searchVars, extractVars, pipelineVars, locatorVars, guardVars, uploadVars, locateVars, chainVars, entryVars, violationVars, readVars, placedVars>>

ParseDiffReturn ==
    /\ diffIn # None
    /\ diffIn' = None
    /\ diffOut' = None
    /\ UNCHANGED <<reviewVars, searchVars, extractVars, pipelineVars, locatorVars, guardVars, uploadVars, locateVars, chainVars, entryVars, violationVars, readVars, placedVars>>

NextDiff == ParseDiffCall \/ ParseDiffReturn

SpecDiff == InitDiff /\ [][NextDiff]_vars

-----------------------------------------------------------------------------
(* What a diff means, read off the items it was generated from: the        *)
(* changed files, the added lines of each and their new-file line numbers. *)

Indices(seq) == [i \in 1..Len(seq) |-> i]

\* the header (file or hunk item) of the hunk in which item i stands
HunkHeaderOf(items, i) == Max({h \in 1..(i - 1) : items[h].kind \in {"file", "hunk"}})

\* the hunk's new-side start plus the context and added lines before item i
NewFileLineNumber(items, i) ==
    LET h == HunkHeaderOf(items, i)
    IN  items[h].start
        + Cardinality({j \in (h + 1)..(i - 1) : items[j].kind \in {"context", "added"}})

\* the last item of the file whose header is item f
LastItemOfFile(items, f) ==
    Min({g \in (f + 1)..Len(items) : items[g].kind = "file"} \cup {Len(items) + 1}) - 1

AddedLinesOfFile(items, f) ==
    LET added == SelectSeq(Indices(items),
                     LAMBDA i : i > f /\ i <= LastItemOfFile(items, f)
                                /\ items[i].kind = "added")
    IN  [k \in 1..Len(added) |->
            [line_num |-> NewFileLineNumber(items, added[k]),
             content |-> items[added[k]].content]]

ChangedFiles(items) ==
    LET files == SelectSeq(Indices(items), LAMBDA i : items[i].kind = "file")
    IN  [k \in 1..Len(files) |->
            [path |-> items[files[k]].path,
             added_lines |-> AddedLinesOfFile(items, files[k])]]

\* an added line whose content begins with "++" is printed as "+++..."
HasPlusPlusLine(items) ==
    \E i \in 1..Len(items) : items[i].kind = "added" /\ StartsWith(items[i].content, "++")

\* (added line, Rule) is a pair of the diff-mode claim: some keyword of the
\* rule occurs in the line, case-insensitively, and the violation predicate holds
ViolatingPair(rule, content) ==
    /\ \E k \in 1..Len(rule.keywords) : Contains(Lower(content), Lower(rule.keywords[k]))
    /\ IsViolationPattern(rule, content, "")

\* the pairs of one changed file, as <<position of the rule, line number>>
ViolatingPairs(rules, file) ==
    {<<r, l>> \in (1..Len(rules)) \X (1..Len(file.added_lines)) :
        ViolatingPair(rules[r], file.added_lines[l].content)}

-----------------------------------------------------------------------------
(* Claims about the verdict and the CodeReviewer.                          *)

\* the issues of a severity in a report, counted one by one
IssuesOfSeverity(rep, sev) ==
    {<<f, i>> \in (1..Len(rep)) \X (1..MaxRules * MaxLines * MaxDiffLen + MaxPaths) :
        i <= Len(rep[f].issues) /\ rep[f].issues[i].severity = sev}

\* C1: the verdict of a Report is BLOCKED if it holds at least one
\* error-severity Issue, otherwise PASSED_WITH_WARNINGS if it holds at least one
\* warning-severity Issue, otherwise PASSED, whatever its info Issues and the
\* order of its files.
C1_VerdictPriority ==
    reportDict # None =>
        reportDict[1].verdict =
            IF IssuesOfSeverity(report[1], "error") # {} THEN "BLOCKED"
            ELSE IF IssuesOfSeverity(report[1], "warning") # {} THEN "PASSED_WITH_WARNINGS"
            ELSE "PASSED"

\* a report of two files whose first file has warnings and infos only and whose
\* second file has an error: BLOCKED
C1_Witness ==
    /\ reportDict # None
    /\ Len(report[1]) = 2
    /\ error_count(report[1][1]) = 0
    /\ warning_count(report[1][1]) > 0
    /\ info_count(report[1][1]) > 0
    /\ error_count(report[1][2]) > 0
    /\ reportDict[1].verdict = "BLOCKED"

RuleIdsDistinct(rules) ==
    \A a, b \in 1..Len(rules) : rules[a].rule_id = rules[b].rule_id => a = b

\* C3: in snippet/file mode the FileReviewResult holds at most one Issue with
\* the id of any one Rule of the Checklist (the ids of the Checklist being
\* pairwise distinct).
C3_AtMostOneIssuePerRule ==
    (/\ reviewOp \in {"review_code_snippet", "review_file"}
     /\ checklist # None
     /\ result # None
     /\ RuleIdsDistinct(checklist[1]))
    => \A r \in 1..Len(checklist[1]) :
          Cardinality({i \in 1..Len(result[1].issues) :
                          result[1].issues[i].rule_id = checklist[1][r].rule_id}) <= 1

\* the file results a diff-mode report must hold by the claim: one per changed
\* file that has a pair, in diff order
FilesWithPairs(rules, items) ==
    SelectSeq(ChangedFiles(items), LAMBDA file : ViolatingPairs(rules, file) # {})

DiffIssuesMatchPairs(rules, items, rep) ==
    LET files == FilesWithPairs(rules, items)
    IN  /\ Len(rep) = Len(files)
        /\ \A f \in 1..Len(rep) :
              /\ rep[f].file_path = files[f].path
              /\ Len(rep[f].issues) = Cardinality(ViolatingPairs(rules, files[f]))
              /\ {<<rep[f].issues[i].rule_id, rep[f].issues[i].line_start>> :
                     i \in 1..Len(rep[f].issues)}
                 = {<<rules[p[1]].rule_id, files[f].added_lines[p[2]].line_num>> :
                     p \in ViolatingPairs(rules, files[f])}

\* C6: in diff mode the Issues of each changed file are exactly the pairs
\* (added line, Rule) in which a keyword of the Rule occurs in the line and the
\* violation predicate holds: one Issue per pair, carrying the line's number.
C6_OneIssuePerLineAndRule ==
    (reviewOp = "review_diff" /\ outcome = "ok")
    => DiffIssuesMatchPairs(checklist[1], reviewIn.items, report[1])

\* the same, for the diffs none of whose added lines begins with "++"
DiffIssuesMatchPairsWithoutPlusPlus ==
    (reviewOp = "review_diff" /\ outcome = "ok" /\ ~HasPlusPlusLine(reviewIn.items))
    => DiffIssuesMatchPairs(checklist[1], reviewIn.items, report[1])

\* C7: every FileReviewResult of a diff-mode Report holds at least one Issue.
C7_DiffReportHasNoCleanFile ==
    (reviewOp = "review_diff" /\ outcome = "ok")
    => \A f \in 1..Len(report[1]) : report[1][f].issues # <<>>

\* a diff of two files with one added line each; the line of the first file
\* triggers a rule, the line of the second triggers none, and the report holds
\* the first file only
C7_Witness ==
    /\ reviewOp = "review_diff"
    /\ outcome = "ok"
    /\ Len(reviewIn.items) = 4
    /\ reviewIn.items[3].kind = "file"
    /\ reviewIn.items[4] = DiffLine("added", "y = 1")
    /\ Len(ParseDiff(reviewIn.diff_content)) = 2
    /\ ParseDiff(reviewIn.diff_content)[2].added_lines # <<>>
    /\ Len(report[1]) = 1
    /\ report[1][1].file_path = reviewIn.items[1].path

\* C8: review_files returns one FileReviewResult per input path, in input
\* order, also for paths with zero Issues and for paths that cannot be read.
C8_OneResultPerPath ==
    (reviewOp = "review_files" /\ outcome = "ok")
    => /\ Len(report[1]) = Len(reviewIn.file_paths)
       /\ \A i \in 1..Len(reviewIn.file_paths) :
             report[1][i].file_path = reviewIn.file_paths[i]

\* two paths: the first cannot be read, the second is read and has no Issue
C8_Witness ==
    /\ reviewOp = "review_files"
    /\ outcome = "ok"
    /\ Len(reviewIn.file_paths) = 2
    /\ reviewIn.disk[reviewIn.file_paths[1]].kind \in {"missing", "unreadable"}
    /\ reviewIn.disk[reviewIn.file_paths[2]].kind = "file"
    /\ Len(report[1]) = 2
    /\ report[1][2].issues = <<>>

\* C9: review_file on a path that is no regular file, or whose read fails,
\* does not raise and returns exactly one Issue, with rule id SYSTEM and
\* severity error; a Report holding it is BLOCKED.
C9_UnreadableFileIsOneSystemError ==
    (reviewOp = "review_file" /\ reviewIn.st.kind \in {"missing", "dir", "unreadable"})
    => /\ outcome = "ok"
       /\ result # None
       /\ Len(result[1].issues) = 1
       /\ result[1].issues[1].rule_id = "SYSTEM"
       /\ result[1].issues[1].severity = "error"
       /\ Verdict(<<result[1]>>) = "BLOCKED"

\* a read failure on a reviewer that has no checklist
C9_Witness ==
    /\ reviewOp = "review_file"
    /\ reviewIn.st.kind = "unreadable"
    /\ checklist = None
    /\ outcome = "ok"
    /\ result # None

-----------------------------------------------------------------------------
(* Claims about _parse_diff.                                               *)

\* C5: after a hunk header with new-side start S, an added line is recorded
\* with the number S + the number of context and added lines that precede it in
\* the hunk; removed lines do not count.
C5_AddedLineNumbers ==
    diffOut # None => diffOut[1] = ChangedFiles(diffIn[1].items)

\* the same, for the diffs none of whose added lines begins with "++"
AddedLineNumbersWithoutPlusPlus ==
    (diffOut # None /\ ~HasPlusPlusLine(diffIn[1].items))
    => diffOut[1] = ChangedFiles(diffIn[1].items)

\* the case of the specification: start 10, a context line, two added lines
AddedLineNumbersExample ==
    (/\ diffOut # None
     /\ Len(diffIn[1].items) = 4
     /\ diffIn[1].items[2].kind = "context"
     /\ diffIn[1].items[3] = DiffLine("added", "Foo bar")
     /\ diffIn[1].items[4] = DiffLine("added", "y = 1"))
    => /\ Len(diffOut[1]) = 1
       /\ diffOut[1][1].added_lines =
            <<[line_num |-> FirstHunkStart + 1, content |-> "Foo bar"],
              [line_num |-> FirstHunkStart + 2, content |-> "y = 1"]>>


\* the added line that is item i of the diff is recorded, with its content
\* and its new-file line number, in the file it belongs to
AddedItemRecorded(items, out, i) ==
    \E f \in 1..Len(out) :
        /\ out[f].path = items[Max({h \in 1..i : items[h].kind = "file"})].path
        /\ \E a \in 1..Len(out[f].added_lines) :
              out[f].added_lines[a] = [line_num |-> NewFileLineNumber(items, i),
                                       content |-> items[i].content]

\* the added lines recorded, of all files
RecordedContents(out) ==
    UNION {{out[f].added_lines[a].content : a \in 1..Len(out[f].added_lines)} :
              f \in 1..Len(out)}

\* C28: every line inside a hunk that begins with '+' is an added line: it is
\* recorded and advances the new-file line counter, also when the added
\* content itself begins with '++' (hunk line '+++x'); only the '+++' marker
\* line of the file header is skipped, so the numbers of the later added lines
\* of the hunk are their real new-file line numbers.
C28_EveryPlusLineIsAdded ==
    diffOut # None =>
        /\ \A i \in 1..Len(diffIn[1].items) :
              diffIn[1].items[i].kind = "added"
                  => AddedItemRecorded(diffIn[1].items, diffOut[1], i)
        /\ \A i \in 1..Len(diffIn[1].items) :
              diffIn[1].items[i].kind = "file"
                  => ("++ b/" \o diffIn[1].items[i].path) \notin RecordedContents(diffOut[1])

\* the marker line '+++ b/path' of a file header is never recorded
FileMarkerIsSkipped ==
    diffOut # None =>
        \A i \in 1..Len(diffIn[1].items) :
            diffIn[1].items[i].kind = "file"
                => ("++ b/" \o diffIn[1].items[i].path) \notin RecordedContents(diffOut[1])

\* an added line whose content begins with '++' is never recorded
PlusPlusLineIsNeverRecorded ==
    diffOut # None =>
        \A c \in RecordedContents(diffOut[1]) : ~StartsWith(c, "++")

\* an added line with no '++' line before it in its hunk is recorded with its
\* real number
AddedLineBeforePlusPlusRecorded ==
    diffOut # None =>
        \A i \in 1..Len(diffIn[1].items) :
            (/\ diffIn[1].items[i].kind = "added"
             /\ \A j \in HunkHeaderOf(diffIn[1].items, i)..i :
                   ~(diffIn[1].items[j].kind = "added"
                     /\ StartsWith(diffIn[1].items[j].content, "++")))
            => AddedItemRecorded(diffIn[1].items, diffOut[1], i)

-----------------------------------------------------------------------------
(* Document search: search_documents and its helpers. A directory tree is  *)
(* the sequence of the items rglob yields, in traversal order.             *)

TextExtensions ==
    {".txt", ".md", ".markdown", ".rst", ".json", ".xml", ".yaml", ".yml",
     ".ini", ".cfg", ".conf", ".log", ".csv", ".tsv",
     ".py", ".js", ".ts", ".jsx", ".tsx", ".html", ".htm", ".css", ".scss",
     ".cpp", ".c", ".h", ".hpp", ".cs", ".java", ".go", ".rs", ".swift",
     ".sh", ".bat", ".ps1", ".cmd", ".sql", ".graphql"}

\* pathlib's PurePath.suffix of a file name
Suffix(name) ==
    LET i == Max({j \in 1..Len(name) : Ch(name, j) = "."} \cup {0})
    IN  IF 1 < i /\ i < Len(name) THEN Rest(name, i) ELSE ""

IsTextFile(item) == Lower(Suffix(item.name)) \in TextExtensions

ScoreNameExact == 100
ScoreNamePartial == 50
ScoreDirMatch == 30
ScoreContentMatch == 20

\* a score that leaves the directory weight out
CalculateRelevanceScoreNoDir(name, keyword, content_match, name_match, dir_match) ==
    (IF name_match
     THEN IF Lower(name) = Lower(keyword) THEN ScoreNameExact
          ELSE IF Contains(Lower(name), Lower(keyword)) THEN ScoreNamePartial
          ELSE 0
     ELSE 0)
    + (IF content_match THEN ScoreContentMatch ELSE 0)

\* _calculate_relevance_score(file_path, keyword, content_match, name_match, dir_match)
CalculateRelevanceScore(name, keyword, content_match, name_match, dir_match) ==
    (IF name_match
     THEN IF Lower(name) = Lower(keyword) THEN ScoreNameExact
          ELSE IF Contains(Lower(name), Lower(keyword)) THEN ScoreNamePartial
          ELSE 0
     ELSE 0)
    + (IF dir_match THEN ScoreDirMatch ELSE 0)
    + (IF content_match THEN ScoreContentMatch ELSE 0)

\* the tests of one keyword on one file; content is None when it is not searched
KeywordMatch(item, kw, content) ==
    [keyword |-> kw,
     name_match |-> Contains(Lower(item.name), Lower(kw)),
     dir_match |-> \E p \in 1..Len(item.parents) : Contains(Lower(item.parents[p]), Lower(kw)),
     content_match |-> content # None /\ Contains(Lower(content[1]), Lower(kw))]

\* the keyword loop shared by _search_in_file and the name-only branch:
\* None, or the matches and their total score
MatchKeywords(item, keywords, content) ==
    LET all == [k \in 1..Len(keywords) |-> KeywordMatch(item, keywords[k], content)]
        matches == SelectSeq(all, LAMBDA m : m.name_match \/ m.dir_match \/ m.content_match)
    IN  IF matches = <<>> THEN None
        ELSE Some([matches |-> matches,
                   score |-> SumSeq([k \in 1..Len(matches) |->
                                CalculateRelevanceScore(item.name, matches[k].keyword,
                                    matches[k].content_match, matches[k].name_match,
                                    matches[k].dir_match)])])

\* _search_in_file: any error while reading gives None
SearchInFile(item, keywords) ==
    IF item.fault = "read" THEN None
    ELSE MatchKeywords(item, keywords, Some(item.content))

\* the body of the scan loop for one regular file
SearchItem(item, keywords, include_content) ==
    IF include_content /\ IsTextFile(item)
    THEN SearchInFile(item, keywords)
    ELSE MatchKeywords(item, keywords, None)

\* the scan loop; an exception raised by is_file()/stat() leaves the loop
RECURSIVE ScanTree(_, _, _, _)
ScanTree(all_results, tree, keywords, include_content) ==
    IF tree = <<>> THEN all_results
    ELSE LET item == Head(tree)
         IN  IF item.fault = "stat" THEN all_results
             ELSE IF ~item.is_file
             THEN ScanTree(all_results, Tail(tree), keywords, include_content)
             ELSE LET r == SearchItem(item, keywords, include_content)
                  IN  ScanTree(IF r = None THEN all_results
                               ELSE Append(all_results,
                                        [path |-> item.path, name |-> item.name,
                                         matches |-> r[1].matches, score |-> r[1].score]),
                               Tail(tree), keywords, include_content)

\* list.sort(key=score, reverse=True): stable
RECURSIVE InsertByScore(_, _)
InsertByScore(sorted, x) ==
    IF sorted = <<>> THEN <<x>>
    ELSE IF Head(sorted).score >= x.score
         THEN <<Head(sorted)>> \o InsertByScore(Tail(sorted), x)
         ELSE <<x>> \o sorted

RECURSIVE SortByScore(_)
SortByScore(seq) ==
    IF seq = <<>> THEN <<>>
    ELSE InsertByScore(SortByScore(SubSeq(seq, 1, Len(seq) - 1)), seq[Len(seq)])

\* the slice seq[:k] of Python, k of either sign
SliceTo(seq, k) ==
    IF k >= 0 THEN SubSeq(seq, 1, Min({k, Len(seq)}))
    ELSE SubSeq(seq, 1, Max({Len(seq) + k, 0}))

SearchFailure(error) ==
    [results |-> <<>>, total_found |-> 0, error |-> error, suggestions |-> TRUE]

\* search_documents(root_dir, keywords, search_dir, top_k, include_content)
SearchDocuments(dir_state, tree, keywords, top_k, include_content) ==
    IF keywords = <<>> THEN SearchFailure(None)
    ELSE IF dir_state = "outside" THEN SearchFailure(Some("PathGuardError"))
    ELSE IF dir_state = "missing" THEN SearchFailure(Some("not found"))
    ELSE IF dir_state = "file" THEN SearchFailure(Some("not a directory"))
    ELSE LET all_results == SortByScore(ScanTree(<<>>, tree, keywords, include_content))
             top_results == SliceTo(all_results, top_k)
         IN  [results |-> top_results, total_found |-> Len(all_results),
              error |-> None, suggestions |-> top_results = <<>>]

-----------------------------------------------------------------------------
(* The directory trees, keyword lists and limits searched.                 *)

MaxItems == 3
MaxTopK == 2

Item(path, name, parents, content, is_file, fault) ==
    [path |-> path, name |-> name, parents |-> parents, content |-> content,
     is_file |-> is_file, fault |-> fault]

SearchItems ==
    {Item("docs/guide.md", "guide.md", <<"docs", "share", "">>, "see the API", TRUE, "none"),
     Item("docs/api", "api", <<"docs", "share", "">>, "", TRUE, "none"),
     Item("api/notes.txt", "notes.txt", <<"api", "share", "">>, "a Guide", TRUE, "none"),
     Item("readme.bin", "readme.bin", <<"share", "">>, "guide", TRUE, "none"),
     Item("guide", "guide", <<"share", "">>, "", FALSE, "none"),
     Item("docs/guide.txt", "guide.txt", <<"docs", "share", "">>, "api guide", TRUE, "read"),
     Item("locked/api.md", "api.md", <<"locked", "share", "">>, "api", TRUE, "stat")}

\* a tree holds an item once
Trees ==
    {t \in SeqsUpTo(SearchItems, MaxItems) : \A i, j \in 1..Len(t) : t[i] = t[j] => i = j}

KeywordLists ==
    {<<>>, <<"guide">>, <<"API">>, <<"Guide", "api">>, <<"docs", "guide">>, <<"md", "Guide">>,
     <<"zzz">>}

TopKs == (-1)..MaxTopK

DirStates == {"dir", "outside", "missing", "file"}

InitSearch == NoReview /\ NoDiff /\ NoSearch /\ NoExtract /\ NoPipeline /\ NoLocator /\ NoGuard /\ NoUpload /\ NoLocate /\ NoChain /\ NoEntry /\ NoViolation /\ NoRead /\ NoPlaced

SearchDocumentsCall ==
    /\ searchIn = None
    /\ \E dir_state \in DirStates, tree \in Trees, keywords \in KeywordLists,
          top_k \in TopKs, include_content \in BOOLEAN :
        /\ dir_state # "dir" => tree = <<>>
        /\ searchIn' = Some([dir_state |-> dir_state, tree |-> tree, keywords |-> keywords,
                             top_k |-> top_k, include_content |-> include_content])
        /\ searchOut' = Some(SearchDocuments(dir_state, tree, keywords, top_k, include_content))
    /\ UNCHANGED <<reviewVars, diffVars, extractVars, pipelineVars, locatorVars, guardVars, uploadVars, locateVars, chainVars, entryVars, violationVars, readVars, placedVars>>

SearchReturn ==
    /\ searchIn # None
    /\ searchIn' = None
    /\ searchOut' = None
    /\ UNCHANGED <<reviewVars, diffVars, extractVars, pipelineVars, locatorVars, guardVars, uploadVars, locateVars, chainVars, entryVars, violationVars, readVars, placedVars>>

NextSearch == SearchDocumentsCall \/ SearchReturn

SpecSearch == InitSearch /\ [][NextSearch]_vars

-----------------------------------------------------------------------------
(* Claims about search_documents.                                          *)

\* a keyword occurs in the file's name, in the name of a directory above it,
\* or, when content is searched and the extension allows it, in its content
KeywordOccurs(item, kw, include_content) ==
    \/ Contains(Lower(item.name), Lower(kw))
    \/ \E p \in 1..Len(item.parents) : Contains(Lower(item.parents[p]), Lower(kw))
    \/ include_content /\ IsTextFile(item) /\ Contains(Lower(item.content), Lower(kw))

\* the positions in the tree of the files that match some keyword
MatchingFiles(tree, keywords, include_content) ==
    {i \in 1..Len(tree) :
        tree[i].is_file /\ \E k \in 1..Len(keywords) : KeywordOccurs(tree[i], keywords[k], include_content)}

\* the score of a file by the weights of the specification
WeightedScore(item, keywords, include_content) ==
    SumSeq([k \in 1..Len(keywords) |->
        (IF Lower(item.name) = Lower(keywords[k]) THEN 100
         ELSE IF Contains(Lower(item.name), Lower(keywords[k])) THEN 50 ELSE 0)
        + (IF \E p \in 1..Len(item.parents) : Contains(Lower(item.parents[p]), Lower(keywords[k]))
           THEN 30 ELSE 0)
        + (IF include_content /\ IsTextFile(item)
              /\ Contains(Lower(item.content), Lower(keywords[k])) THEN 20 ELSE 0)])

ResultPaths(out) == {out.results[r].path : r \in 1..Len(out.results)}

SearchTruncates(in, out) ==
    LET matching == MatchingFiles(in.tree, in.keywords, in.include_content)
    IN  /\ Len(out.results) <= in.top_k
        /\ out.total_found = Cardinality(matching)
        /\ out.total_found >= Len(out.results)
        /\ \A r \in 1..(Len(out.results) - 1) : out.results[r].score >= out.results[r + 1].score
        /\ ResultPaths(out) \subseteq {in.tree[i].path : i \in matching}
        /\ \A i \in matching : in.tree[i].path \notin ResultPaths(out) =>
              \A r \in 1..Len(out.results) :
                  WeightedScore(in.tree[i], in.keywords, in.include_content)
                      <= out.results[r].score

\* C10: for every call of search_documents the results are the matching files
\* sorted by score descending and truncated to topK: len(results) <= topK,
\* totalFound is the number of matching files, totalFound >= len(results), and
\* no file outside the results scores strictly higher than a file inside.
C10_SearchSortedAndTruncated ==
    searchOut # None => SearchTruncates(searchIn[1], searchOut[1])

NoFault(tree) == \A i \in 1..Len(tree) : tree[i].fault = "none"

\* the same, for the calls with topK >= 0 on a tree all of whose items can be read
SearchTruncatesWithoutFault ==
    (searchOut # None /\ searchIn[1].top_k >= 0 /\ NoFault(searchIn[1].tree))
    => SearchTruncates(searchIn[1], searchOut[1])

\* with topK >= 0 the results are never more than topK, whatever the tree
SearchResultsWithinTopK ==
    (searchOut # None /\ searchIn[1].top_k >= 0)
    => /\ Len(searchOut[1].results) <= searchIn[1].top_k
       /\ searchOut[1].total_found >= Len(searchOut[1].results)

\* C11: a file under the search directory is among the matches of
\* search_documents if and only if some keyword is a case-insensitive
\* substring of its name, of the name of a directory above it or (content
\* search enabled, extension allow-listed) of its content: no file without a
\* match is returned, every file with a match is counted, and a call whose
\* topK does not truncate returns exactly the files with a match.
C11_MatchesAreTheFilesWithAKeyword ==
    searchOut # None =>
        LET in == searchIn[1]
            out == searchOut[1]
            matching == IF in.keywords = <<>> THEN {}
                        ELSE MatchingFiles(in.tree, in.keywords, in.include_content)
            matching_paths == {in.tree[i].path : i \in matching}
        IN  /\ ResultPaths(out) \subseteq matching_paths
            /\ out.total_found = Cardinality(matching)
            /\ Cardinality(matching) <= in.top_k => ResultPaths(out) = matching_paths

\* the same, on a tree all of whose items can be read
MatchesAreTheFilesWithAKeywordWithoutFault ==
    (searchOut # None /\ NoFault(searchIn[1].tree)) =>
        LET in == searchIn[1]
            out == searchOut[1]
            matching == IF in.keywords = <<>> THEN {}
                        ELSE MatchingFiles(in.tree, in.keywords, in.include_content)
            matching_paths == {in.tree[i].path : i \in matching}
        IN  /\ ResultPaths(out) \subseteq matching_paths
            /\ out.total_found = Cardinality(matching)
            /\ Cardinality(matching) <= in.top_k => ResultPaths(out) = matching_paths

\* no file without a match is ever returned, whatever the tree
NoFileWithoutMatchIsReturned ==
    searchOut # None =>
        ResultPaths(searchOut[1]) \subseteq
            {searchIn[1].tree[i].path :
                i \in MatchingFiles(searchIn[1].tree, searchIn[1].keywords,
                                    searchIn[1].include_content)}

\* every file that matches and can be read is among the results, when topK
\* leaves room for all of them
ReadableMatchesReturned(in, out) ==
    LET matching == MatchingFiles(in.tree, in.keywords, in.include_content)
    IN  Cardinality(matching) <= in.top_k
        => {in.tree[i].path : i \in {m \in matching : in.tree[m].fault = "none"}}
              \subseteq ResultPaths(out)

Searched == searchOut # None /\ searchIn[1].dir_state = "dir" /\ searchIn[1].keywords # <<>>

\* C22: during a scan an error on one item (unreadable file, permission
\* denied, stat failure) excludes only that item: every other file under the
\* scanned directory that matches is still returned, whatever the position of
\* the failing item in the traversal order.
C22_ItemErrorExcludesOnlyThatItem ==
    Searched => ReadableMatchesReturned(searchIn[1], searchOut[1])

\* the same, when no item of the tree fails in is_file() or stat(): a file
\* whose content cannot be read excludes nothing but itself
ReadErrorExcludesOnlyThatItem ==
    (Searched /\ \A i \in 1..Len(searchIn[1].tree) : searchIn[1].tree[i].fault # "stat")
    => ReadableMatchesReturned(searchIn[1], searchOut[1])

\* the files the traversal yields before the first item that fails in
\* is_file() or stat() are returned
FilesBeforeStatErrorReturned ==
    Searched =>
        LET in == searchIn[1]
            before == {i \in MatchingFiles(in.tree, in.keywords, in.include_content) :
                          /\ in.tree[i].fault = "none"
                          /\ \A j \in 1..i : in.tree[j].fault # "stat"}
        IN  Cardinality(MatchingFiles(in.tree, in.keywords, in.include_content)) <= in.top_k
            => {in.tree[i].path : i \in before} \subseteq ResultPaths(searchOut[1])

\* the keyword lists with the same keywords in another order
Reorderings(keywords) ==
    {[k \in 1..Len(keywords) |-> keywords[p[k]]] : p \in Permutations(1..Len(keywords))}

\* the score search_documents gives the file at a path when nothing is cut off
ScoreOfPath(in, keywords, path) ==
    LET out == SearchDocuments(in.dir_state, in.tree, keywords, Len(in.tree), in.include_content)
    IN  {out.results[r].score : r \in {q \in 1..Len(out.results) : out.results[q].path = path}}

\* the keyword matches the file by a proper substring of its name and by
\* nothing else
OnlyNameSubstring(item, kw, include_content) ==
    /\ Contains(Lower(item.name), Lower(kw))
    /\ Lower(item.name) # Lower(kw)
    /\ ~\E p \in 1..Len(item.parents) : Contains(Lower(item.parents[p]), Lower(kw))
    /\ ~(include_content /\ IsTextFile(item) /\ Contains(Lower(item.content), Lower(kw)))

\* C12: the score of a returned file is the sum over the keywords of the
\* fixed weights it earns (name exact 100, else name substring 50; directory
\* 30; content 20), so it is the same for every order of the keyword list;
\* a file matched by exactly two keywords, each only by a substring of its
\* name, scores exactly 100.
C12_ScoreIsSumOfWeights ==
    searchOut # None =>
        LET in == searchIn[1]
            out == searchOut[1]
        IN  \A r \in 1..Len(out.results) :
                \E i \in 1..Len(in.tree) :
                    /\ in.tree[i].path = out.results[r].path
                    /\ out.results[r].score
                           = WeightedScore(in.tree[i], in.keywords, in.include_content)
                    /\ \A reordered \in Reorderings(in.keywords) :
                           ScoreOfPath(in, reordered, out.results[r].path)
                               = {out.results[r].score}
                    /\ (/\ Len(in.keywords) = 2
                        /\ \A k \in 1..2 :
                              OnlyNameSubstring(in.tree[i], in.keywords[k], in.include_content))
                       => out.results[r].score = 2 * ScoreNamePartial

\* a file matched by two keywords, each only by a substring of its name, is
\* returned with the score 100
C12_Witness ==
    /\ searchOut # None
    /\ Len(searchIn[1].keywords) = 2
    /\ searchIn[1].keywords[1] # searchIn[1].keywords[2]
    /\ \E r \in 1..Len(searchOut[1].results), i \in 1..Len(searchIn[1].tree) :
          /\ searchIn[1].tree[i].path = searchOut[1].results[r].path
          /\ \A k \in 1..2 : OnlyNameSubstring(searchIn[1].tree[i], searchIn[1].keywords[k],
                                                searchIn[1].include_content)
          /\ searchOut[1].results[r].score = 100

-----------------------------------------------------------------------------
(* Rule extraction: sections, list items, rules.                           *)

LeadingHashes(line) ==
    Max({n \in 0..Len(line) : \A i \in 1..n : Ch(line, i) = "#"})

\* header_pattern ^(#{1,6})\s+(.+)$ on one line
HeaderMatches(line) ==
    LET n == LeadingHashes(line)
    IN  n >= 1 /\ n <= 6 /\ Len(line) >= n + 2 /\ IsSpace(Ch(line, n + 1))

\* match.group(2).strip()
HeaderTitle(line) == Strip(Rest(line, LeadingHashes(line) + 2))

CloseSection(st, line_end) ==
    IF st.current_section = None THEN st.sections
    ELSE Append(st.sections,
                [st.current_section[1] EXCEPT
                    !.content = JoinLines(st.section_content_lines),
                    !.line_end = line_end])

\* the loop of _extract_markdown_sections, from line i on
RECURSIVE SectionsLoop(_, _, _)
SectionsLoop(st, lines, i) ==
    IF i > Len(lines) THEN st
    ELSE IF HeaderMatches(lines[i])
    THEN SectionsLoop([sections |-> CloseSection(st, i - 1),
                       current_section |->
                           Some([level |-> LeadingHashes(lines[i]),
                                 title |-> HeaderTitle(lines[i]),
                                 line_start |-> i, line_end |-> 0, content |-> ""]),
                       section_content_lines |-> <<>>],
                      lines, i + 1)
    ELSE SectionsLoop([st EXCEPT !.section_content_lines = Append(@, lines[i])],
                      lines, i + 1)

\* _extract_markdown_sections(content)
ExtractMarkdownSections(content) ==
    LET lines == SplitLines(content)
        st == SectionsLoop([sections |-> <<>>, current_section |-> None,
                            section_content_lines |-> <<>>], lines, 1)
    IN  CloseSection(st, Len(lines))

IsBlank(line) == Strip(line) = ""

\* the first line from i on that is not white space only, or 0
FirstNonBlank(lines, i) ==
    LET found == {j \in i..Len(lines) : ~IsBlank(lines[j])}
    IN  IF found = {} THEN 0 ELSE Min(found)

\* what follows the marker ("-", "*" or digits and a dot) of a line, or None
AfterMarker(line) ==
    LET body == LStrip(line)
        d == SpanDigits(body, 1)
    IN  IF StartsWith(body, "-") \/ StartsWith(body, "*") THEN Some(Rest(body, 2))
        ELSE IF d >= 1 /\ d < Len(body) /\ Ch(body, d + 1) = "." THEN Some(Rest(body, d + 2))
        ELSE None

\* the rest of a match of list_pattern whose marker stands on line j: the text
\* (.+) and the line it ends on; \s+ may run over line ends, so the text can
\* stand on a later line. None: no match (a text of white space only, at the
\* end of the content, is left out)
ItemText(lines, j) ==
    LET rest == AfterMarker(lines[j])[1]
        k == FirstNonBlank(lines, j + 1)
    IN  IF rest # "" /\ ~IsSpace(Ch(rest, 1)) THEN None
        ELSE IF LStrip(rest) # "" THEN Some([text |-> LStrip(rest), end |-> j])
        ELSE IF k = 0 THEN None
        ELSE Some([text |-> LStrip(lines[k]), end |-> k])

\* list_pattern.finditer(content) from line i on: the matches, each with the
\* line on which it starts (^[\s]* takes the blank lines before the marker)
RECURSIVE FindListItems(_, _)
FindListItems(lines, i) ==
    LET j == FirstNonBlank(lines, i)
    IN  IF i > Len(lines) \/ j = 0 THEN <<>>
        ELSE IF AfterMarker(lines[j]) = None \/ ItemText(lines, j) = None
        THEN FindListItems(lines, j + 1)
        ELSE <<[start_line |-> i, text |-> ItemText(lines, j)[1].text]>>
             \o FindListItems(lines, ItemText(lines, j)[1].end + 1)

\* severity_keywords, in the order of the dictionary
SeverityKeywords ==
    <<[severity |-> "error",
       keywords |-> <<"{bixu}", "{jinzhi}", "{bude}", "{buyunxu}", "{qiangzhi}",
                      "must", "shall", "required", "forbidden", "never">>],
      [severity |-> "warning",
       keywords |-> <<"{yinggai}", "{jianyi}", "{tuijian}", "{bimian}",
                      "should", "recommended", "avoid", "prefer">>],
      [severity |-> "info",
       keywords |-> <<"{keyi}", "{kexuan}", "{zhuyi}", "{shuoming}",
                      "may", "optional", "note", "consider">>]>>

HasAnyOf(text, kws) == \E k \in 1..Len(kws) : Contains(text, kws[k])

\* a severity loop in which the last matching level wins
SeverityOfLast(rule_text) ==
    LET hits == {n \in 1..Len(SeverityKeywords) :
                    HasAnyOf(Lower(rule_text), SeverityKeywords[n].keywords)}
    IN  IF hits = {} THEN "info" ELSE SeverityKeywords[Max(hits)].severity

\* the severity loop of _extract_rules_from_section
SeverityOf(rule_text) ==
    LET hits == {n \in 1..Len(SeverityKeywords) :
                    HasAnyOf(Lower(rule_text), SeverityKeywords[n].keywords)}
    IN  IF hits = {} THEN "info" ELSE SeverityKeywords[Min(hits)].severity

LowerSet == {Ch(LowerChars, i) : i \in 1..Len(LowerChars)}
IsLetter(c) == c \in UpperSet \/ c \in LowerSet
IsAlnum(c) == IsLetter(c) \/ IsDigit(c)
IsWordCh(c) == IsAlnum(c) \/ c = "_"

\* the maximal runs of word characters (\w) of s from position p on
RECURSIVE WordRuns(_, _)
WordRuns(s, p) ==
    LET starts == {i \in p..Len(s) : IsWordCh(Ch(s, i))}
        b == Min(starts)
        e == Min({i \in b..Len(s) : i = Len(s) \/ ~IsWordCh(Ch(s, i + 1))})
    IN  IF starts = {} THEN <<>> ELSE <<SubSeq(s, b, e)>> \o WordRuns(s, e + 1)

\* \b[A-Z][a-zA-Z]+\b|\b[a-z]+[A-Z][a-zA-Z]*\b on a run of word characters
IsEnglishWord(w) ==
    /\ \A i \in 1..Len(w) : IsLetter(Ch(w, i))
    /\ \/ Ch(w, 1) \in UpperSet /\ Len(w) >= 2
       \/ Ch(w, 1) \in LowerSet /\ \E i \in 2..Len(w) : Ch(w, i) \in UpperSet

\* the quote class of _extract_keywords_from_text, as far as its members can
\* be written here: the straight double and single quotes
QuoteChars == {"\"", "'"}

\* re.findall of quote, one or more non-quotes, quote, from position p on
RECURSIVE Quoted(_, _)
Quoted(s, p) ==
    LET opens == {i \in p..Len(s) : Ch(s, i) \in QuoteChars}
        o == Min(opens)
        closes == {i \in (o + 1)..Len(s) : Ch(s, i) \in QuoteChars}
        c == Min(closes)
    IN  IF opens = {} THEN <<>>
        ELSE IF closes = {} THEN <<>>
        ELSE IF c = o + 1 THEN Quoted(s, c)
        ELSE <<SubSeq(s, o + 1, c - 1)>> \o Quoted(s, c + 1)

CodeTerms == {"class", "function", "method", "variable", "const", "enum", "struct", "interface"}

Take(seq, n) == SubSeq(seq, 1, Min({n, Len(seq)}))

\* list(dict.fromkeys(seq))
RECURSIVE Dedupe(_)
Dedupe(seq) ==
    IF seq = <<>> THEN <<>>
    ELSE LET front == Dedupe(SubSeq(seq, 1, Len(seq) - 1))
             x == seq[Len(seq)]
         IN  IF \E i \in 1..Len(front) : front[i] = x THEN front ELSE Append(front, x)

MaxEnglishWords == 5
MaxQuoted == 3
MaxKeywordsPerRule == 8

\* _extract_keywords_from_text(text)
ExtractKeywordsFromText(text) ==
    LET english_words == SelectSeq(WordRuns(text, 1), IsEnglishWord)
        quoted == Quoted(text, 1)
        code_terms == SelectSeq(WordRuns(Lower(text), 1), LAMBDA w : w \in CodeTerms)
    IN  Take(Dedupe(Take(english_words, MaxEnglishWords) \o Take(quoted, MaxQuoted)
                    \o code_terms), MaxKeywordsPerRule)

\* category_keywords, in the order of the dictionary
CategoryKeywords ==
    <<[category |-> "{mingming}{guifan}", keywords |-> <<"naming", "{mingming}", "name", "{biaoshifu}", "identifier">>],
      [category |-> "{daima}{geshi}", keywords |-> <<"format", "{geshi}", "style", "{yangshi}", "{suojin}", "indent", "{kongge}", "space">>],
      [category |-> "{zhushi}{guifan}", keywords |-> <<"comment", "{zhushi}", "{wendang}", "document", "doc">>],
      [category |-> "{jiagou}{sheji}", keywords |-> <<"architecture", "{jiagou}", "{sheji}", "design", "pattern", "{moshi}">>],
      [category |-> "{cuowu}{chuli}", keywords |-> <<"error", "{cuowu}", "{yichang}", "exception", "handle">>],
      [category |-> "{xingneng}{youhua}", keywords |-> <<"performance", "{xingneng}", "{youhua}", "optimize", "{xiaolv}">>],
      [category |-> "{anquan}{guifan}", keywords |-> <<"security", "{anquan}", "{quanxian}", "permission", "auth">>],
      [category |-> "{ceshi}{guifan}", keywords |-> <<"test", "{ceshi}", "{danyuan}", "unit", "coverage">>],
      [category |-> "Git/{banben}{kongzhi}", keywords |-> <<"git", "version", "{banben}", "commit", "branch">>],
      [category |-> "API{sheji}", keywords |-> <<"api", "{jiekou}", "interface", "rest", "http">>],
      [category |-> "{shujuku}", keywords |-> <<"database", "{shujuku}", "sql", "db", "table">>],
      [category |-> "{rizhi}{guifan}", keywords |-> <<"log", "{rizhi}", "logging", "trace">>]>>

\* a category that does not look at the path
InferCategoryGeneral(file_path, section_title) == "{tongyong}{guifan}"

\* _infer_category_from_path(file_path, section_title)
InferCategoryFromPath(file_path, section_title) ==
    LET combined == Lower(file_path) \o " " \o Lower(section_title)
        hits == {n \in 1..Len(CategoryKeywords) : HasAnyOf(combined, CategoryKeywords[n].keywords)}
    IN  IF hits = {} THEN "{tongyong}{guifan}" ELSE CategoryKeywords[Min(hits)].category

MinRuleTextLen == 10
MaxTitleLen == 50

\* f"{rule_index:03d}"
Pad3(n) == IF n < 10 THEN "00" \o IntToStr(n) ELSE IF n < 100 THEN "0" \o IntToStr(n) ELSE IntToStr(n)

\* the rule built from the rule_index-th list item kept
RuleOfItem(item, rule_index, section, source_file, category, rule_id_prefix) ==
    [rule_id |-> rule_id_prefix \o Pad3(rule_index),
     title |-> IF Len(item.text) > MaxTitleLen
               THEN SubSeq(item.text, 1, MaxTitleLen) \o "..." ELSE item.text,
     description |-> item.text,
     keywords |-> ExtractKeywordsFromText(item.text),
     severity |-> SeverityOf(item.text),
     source_file |-> source_file,
     source_line |-> section.line_start + item.start_line,
     source_section |-> section.title,
     category |-> category,
     examples |-> <<>>,
     counter_examples |-> <<>>]

\* an extraction that keeps the short list items too
ExtractRulesFromSectionKeepShort(section, source_file, category, rule_id_prefix) ==
    LET items == FindListItems(SplitLines(section.content), 1)
    IN  [rule_index \in 1..Len(items) |->
            RuleOfItem(items[rule_index], rule_index, section, source_file, category,
                       rule_id_prefix)]

\* _extract_rules_from_section: rule_index starts at 0 in every call
ExtractRulesFromSection(section, source_file, category, rule_id_prefix) ==
    LET items == FindListItems(SplitLines(section.content), 1)
        kept == SelectSeq(items, LAMBDA item : Len(item.text) >= MinRuleTextLen)
    IN  [rule_index \in 1..Len(kept) |->
            RuleOfItem(kept[rule_index], rule_index, section, source_file, category,
                       rule_id_prefix)]

\* the last component of a relative path, and Path.stem
BaseName(path) ==
    Rest(path, Max({i \in 1..Len(path) : Ch(path, i) = "/"} \cup {0}) + 1)

Stem(name) == SubSeq(name, 1, Len(name) - Len(Suffix(name)))

UpperOf == [c \in LowerSet |-> Ch(UpperChars, CHOOSE i \in 1..Len(LowerChars) : Ch(LowerChars, i) = c)]

RECURSIVE Upper(_)
Upper(s) ==
    IF s = "" THEN ""
    ELSE (IF Ch(s, 1) \in LowerSet THEN UpperOf[Ch(s, 1)] ELSE Ch(s, 1)) \o Upper(Rest(s, 2))

RECURSIVE FilterAlnum(_)
FilterAlnum(s) ==
    IF s = "" THEN ""
    ELSE (IF IsAlnum(Ch(s, 1)) THEN Ch(s, 1) ELSE "") \o FilterAlnum(Rest(s, 2))

MaxPrefixLen == 10

\* the default rule_id_prefix of extract_checklist_from_document
RuleIdPrefix(doc_rel_path) ==
    LET alnum == FilterAlnum(Stem(BaseName(doc_rel_path)))
        prefix == Upper(SubSeq(alnum, 1, Min({MaxPrefixLen, Len(alnum)})))
    IN  (IF prefix = "" THEN "RULE" ELSE prefix) \o "_"

\* the single section made of a document without headers
WholeDocumentSection(content) ==
    [level |-> 1, title |-> "{guifan}{neirong}", line_start |-> 1,
     line_end |-> Len(SplitLines(content)), content |-> content]

\* the rules extract_checklist_from_document adds to the checklist
DocumentRules(doc_rel_path, content, rule_id_prefix) ==
    LET found == ExtractMarkdownSections(content)
        sections == IF found = <<>> THEN <<WholeDocumentSection(content)>> ELSE found
    IN  Flatten([n \in 1..Len(sections) |->
            ExtractRulesFromSection(sections[n], doc_rel_path,
                InferCategoryFromPath(doc_rel_path, sections[n].title), rule_id_prefix)])

\* StandardRule.to_dict()
RuleToDict(rule) ==
    [rule_id |-> rule.rule_id, title |-> rule.title, description |-> rule.description,
     keywords |-> rule.keywords, severity |-> rule.severity,
     source |-> [file |-> rule.source_file, line |-> rule.source_line,
                 section |-> rule.source_section],
     category |-> rule.category, examples |-> rule.examples,
     counter_examples |-> rule.counter_examples]

\* the StandardRule rebuilt from a dictionary (build_project_checklist,
\* CodeReviewer.ensure_checklist)
RuleFromDict(rule_data) ==
    [rule_id |-> rule_data.rule_id, title |-> rule_data.title,
     description |-> rule_data.description, keywords |-> rule_data.keywords,
     severity |-> rule_data.severity, source_file |-> rule_data.source.file,
     source_line |-> rule_data.source.line, source_section |-> rule_data.source.section,
     category |-> rule_data.category, examples |-> rule_data.examples,
     counter_examples |-> rule_data.counter_examples]

\* StandardChecklist(name) and StandardChecklist.to_dict()
StandardChecklist(name, source_documents, rules) ==
    [name |-> name, source_documents |-> source_documents, rules |-> rules]

ChecklistToDict(c) ==
    [name |-> c.name, total_rules |-> Len(c.rules), source_documents |-> c.source_documents,
     rules |-> [r \in 1..Len(c.rules) |-> RuleToDict(c.rules[r])]]

\* extract_checklist_from_document(root_dir, doc_rel_path); doc is the file at
\* the path: read_text_file raises PathGuardError for a missing path or a
\* directory, which is caught; an error of open() is not
ExtractChecklistFromDocument(doc_rel_path, doc) ==
    IF doc.kind \in {"missing", "dir"}
    THEN [raised |-> None, error |-> Some("PathGuardError"), checklist |-> None]
    ELSE IF doc.kind = "unreadable"
    THEN [raised |-> Some("PermissionError"), error |-> None, checklist |-> None]
    ELSE IF doc.content = ""
    THEN [raised |-> None, error |-> Some("empty"), checklist |-> None]
    ELSE [raised |-> None, error |-> None,
          checklist |-> Some(ChecklistToDict(StandardChecklist(
                                 "{guifan}{jiancha}{qingdan} - " \o BaseName(doc_rel_path),
                                 <<doc_rel_path>>,
                                 DocumentRules(doc_rel_path, doc.content,
                                               RuleIdPrefix(doc_rel_path)))))]

-----------------------------------------------------------------------------
(* The documents from which rules are extracted.                           *)

MaxDocLines == 4

DocLines ==
    {"# Naming", "## Style", "- Must avoid optional Tabs", "* should avoid Tabs",
     "- short", "", "plain text"}

DocPaths == {"std/naming.md", "std/c++.md"}

Documents ==
    {FileMissing, FileIsDir, FileUnreadable}
    \cup {FileWith(JoinLines(ls)) : ls \in SeqsUpTo(DocLines, MaxDocLines)}

InitExtract == NoReview /\ NoDiff /\ NoSearch /\ NoExtract /\ NoPipeline /\ NoLocator /\ NoGuard /\ NoUpload /\ NoLocate /\ NoChain /\ NoEntry /\ NoViolation /\ NoRead /\ NoPlaced

ExtractChecklistCall ==
    /\ extractIn = None
    /\ \E doc_rel_path \in DocPaths, doc \in Documents :
        /\ extractIn' = Some([doc_rel_path |-> doc_rel_path, doc |-> doc])
        /\ extractOut' = Some(ExtractChecklistFromDocument(doc_rel_path, doc))
    /\ UNCHANGED <<reviewVars, diffVars, searchVars, pipelineVars, locatorVars, guardVars, uploadVars, locateVars, chainVars, entryVars, violationVars, readVars, placedVars>>

ExtractReturn ==
    /\ extractIn # None
    /\ extractIn' = None
    /\ extractOut' = None
    /\ UNCHANGED <<reviewVars, diffVars, searchVars, pipelineVars, locatorVars, guardVars, uploadVars, locateVars, chainVars, entryVars, violationVars, readVars, placedVars>>

NextExtract == ExtractChecklistCall \/ ExtractReturn

SpecExtract == InitExtract /\ [][NextExtract]_vars

-----------------------------------------------------------------------------
(* Claims about rule extraction.                                           *)

ExtractedRules == extractOut[1].checklist[1].rules

Extracted == extractOut # None /\ extractOut[1].checklist # None

\* C4: within one extraction pass all Rules have pairwise distinct ids: the
\* sequence starts at 1 once per document and increases by one for each Rule,
\* however many sections the document has.
C4_RuleIdsUniquePerDocument ==
    Extracted =>
        /\ RuleIdsDistinct(ExtractedRules)
        /\ \A n \in 1..Len(ExtractedRules) :
              ExtractedRules[n].rule_id = RuleIdPrefix(extractIn[1].doc_rel_path) \o Pad3(n)

\* the ids of a pass are pairwise distinct
RuleIdsUniquePerDocument ==
    Extracted => RuleIdsDistinct(ExtractedRules)

\* the same, for the documents with at most one section
RuleIdsUniqueInOneSection ==
    (Extracted /\ Len(ExtractMarkdownSections(extractIn[1].doc.content)) <= 1)
    => \A n \in 1..Len(ExtractedRules) :
            ExtractedRules[n].rule_id = RuleIdPrefix(extractIn[1].doc_rel_path) \o Pad3(n)

\* the list items of the whole document, whatever their sections
DocumentItems == FindListItems(SplitLines(extractIn[1].doc.content), 1)

\* C13: no Rule comes from a list item whose text, after the marker, is shorter
\* than 10 characters: every Rule of an extracted Checklist has a description
\* of at least 10 characters.
C13_NoRuleFromShortItem ==
    Extracted =>
        \A n \in 1..Len(ExtractedRules) : Len(ExtractedRules[n].description) >= 10

\* a pass over a document with a short item and a long one: only the long one
\* became a Rule
C13_Witness ==
    /\ Extracted
    /\ \E i \in 1..Len(DocumentItems) : Len(DocumentItems[i].text) < 10
    /\ Len(ExtractedRules) >= 1
    /\ Len(ExtractedRules) < Len(DocumentItems)

DocumentLines == SplitLines(extractIn[1].doc.content)

\* the line of the document with this number is a list item with this text
IsItemLine(line_number, text) ==
    /\ line_number \in 1..Len(DocumentLines)
    /\ AfterMarker(DocumentLines[line_number]) # None
    /\ LStrip(AfterMarker(DocumentLines[line_number])[1]) = text

HasHeadings == ExtractMarkdownSections(extractIn[1].doc.content) # <<>>

\* a blank line stands right before a list item
BlankBeforeItem ==
    \E n \in 2..Len(DocumentLines) :
        IsBlank(DocumentLines[n - 1]) /\ AfterMarker(DocumentLines[n]) # None

\* C26: the source line of every Rule is the 1-based line number, in the
\* document, of the list item the Rule was extracted from, for documents with
\* headings and for documents without, treated as one section, and whether or
\* not blank lines stand before the item.
C26_SourceLineIsItemLine ==
    Extracted =>
        \A n \in 1..Len(ExtractedRules) :
            IsItemLine(ExtractedRules[n].source.line, ExtractedRules[n].description)

\* the same, for the documents with headings and no blank line before an item
SourceLineIsItemLineUnderHeading ==
    (Extracted /\ HasHeadings /\ ~BlankBeforeItem) =>
        \A n \in 1..Len(ExtractedRules) :
            IsItemLine(ExtractedRules[n].source.line, ExtractedRules[n].description)

\* in a document without headings the source line is one more than the line
\* of the item, when no blank line stands before an item
SourceLineIsOneMoreWithoutHeading ==
    (Extracted /\ ~HasHeadings /\ ~BlankBeforeItem) =>
        \A n \in 1..Len(ExtractedRules) :
            IsItemLine(ExtractedRules[n].source.line - 1, ExtractedRules[n].description)

\* the texts of the list items of the document that are long enough
LongItems ==
    SelectSeq([i \in 1..Len(DocumentItems) |-> DocumentItems[i].text],
              LAMBDA text : Len(text) >= MinRuleTextLen)

\* a list item stands before the first heading of a document with headings
ItemBeforeFirstHeading ==
    /\ HasHeadings
    /\ \E n \in 1..Len(DocumentLines) :
          /\ AfterMarker(DocumentLines[n]) # None
          /\ \A h \in 1..n : ~HeaderMatches(DocumentLines[h])

\* C27: extraction is complete over the document: every list item whose text
\* has at least 10 characters yields exactly one Rule of the Checklist,
\* wherever it stands, the list items before the first heading of a document
\* with headings included.
C27_EveryLongItemYieldsOneRule ==
    Extracted =>
        [n \in 1..Len(ExtractedRules) |-> ExtractedRules[n].description] = LongItems

\* the same, for the documents with no list item before the first heading
EveryLongItemYieldsOneRuleAfterHeading ==
    (Extracted /\ ~ItemBeforeFirstHeading) =>
        [n \in 1..Len(ExtractedRules) |-> ExtractedRules[n].description] = LongItems

\* no Rule comes from a list item that stands before the first heading
NoRuleBeforeFirstHeading ==
    (Extracted /\ HasHeadings) =>
        \A n \in 1..Len(ExtractedRules) :
            \E h \in 1..Len(DocumentLines) :
                HeaderMatches(DocumentLines[h]) /\ h < ExtractedRules[n].source.line

\* the terms of a severity level
TermsOf(severity) ==
    SeverityKeywords[CHOOSE n \in 1..Len(SeverityKeywords) :
                        SeverityKeywords[n].severity = severity].keywords

-----------------------------------------------------------------------------
(* Locating the standard documents. The shared drive is a function from    *)
(* the relative paths of directories to their state and their tree.        *)

DefaultStandardKeywords ==
    <<"{guifan}", "Standard", "Guideline", "Guidelines", "Convention", "Conventions",
      "{bianma}{guifan}", "{daima}{guifan}", "{mingming}{guifan}", "{kaifa}{guifan}",
      "{sheji}{guifan}", "Coding Standard", "Code Style", "Style Guide", "Best Practice",
      "{jiagou}{guifan}", "{jiekou}{guifan}", "API{guifan}", "{zhushi}{guifan}">>

DefaultStandardPaths ==
    <<"{guifan}", "{guifan}{wendang}", "Standards", "Guidelines", "Docs/{guifan}",
      "Docs/Standards", "Documentation/Standards", "{xiangmu}{guifan}", "{kaifa}{guifan}",
      "CodeStandards">>

StandardDocExtensions ==
    {".md", ".markdown", ".txt", ".rst", ".doc", ".docx", ".pdf", ".html", ".htm", ".wiki"}

IsStandardDoc(name) == Lower(Suffix(name)) \in StandardDocExtensions

MissingDir == [state |-> "missing", tree |-> <<>>]

DirAt(drive, rel_path) == IF rel_path \in DOMAIN drive THEN drive[rel_path] ELSE MissingDir

PathMatch(item, rel_path) ==
    [path |-> item.path, name |-> item.name, source |-> "path_match",
     matched_path |-> rel_path, matched_keywords |-> <<>>, score |-> None]

KeywordMatchDoc(r) ==
    [path |-> r.path, name |-> r.name, source |-> "keyword_match", matched_path |-> "",
     matched_keywords |-> [m \in 1..Len(r.matches) |-> r.matches[m].keyword],
     score |-> Some(r.score)]

\* pass 1, the rglob loop of one search path; a PermissionError of is_file()
\* or stat() ends the loop and marks the path inaccessible
RECURSIVE ScanStandardDir(_, _, _)
ScanStandardDir(found, tree, rel_path) ==
    IF tree = <<>> THEN [found |-> found, denied |-> FALSE]
    ELSE IF Head(tree).fault = "stat" THEN [found |-> found, denied |-> TRUE]
    ELSE ScanStandardDir(IF Head(tree).is_file /\ IsStandardDoc(Head(tree).name)
                         THEN Append(found, PathMatch(Head(tree), rel_path)) ELSE found,
                         Tail(tree), rel_path)

\* pass 1 of locate_standard_documents for one search path
LocateInPath(st, drive, rel_path) ==
    LET dir == DirAt(drive, rel_path)
        scan == ScanStandardDir(st.found, dir.tree, rel_path)
    IN  IF dir.state = "outside"
        THEN [st EXCEPT !.inaccessible = Append(@, rel_path)]
        ELSE IF dir.state # "dir" THEN st
        ELSE [found |-> scan.found,
              searched |-> Append(st.searched, rel_path),
              inaccessible |-> IF scan.denied THEN Append(st.inaccessible, rel_path)
                               ELSE st.inaccessible]

\* pass 1 of locate_standard_documents, from the n-th search path on
RECURSIVE LocateByPath(_, _, _, _)
LocateByPath(st, drive, search_paths, n) ==
    IF n > Len(search_paths) THEN st
    ELSE Only({LocateByPath(next, drive, search_paths, n + 1) :
                  next \in {LocateInPath(st, drive, search_paths[n])}})

\* the results of one keyword search that pass 2 appends to found
RECURSIVE AppendKeywordMatches(_, _)
AppendKeywordMatches(found, results) ==
    IF results = <<>> THEN found
    ELSE AppendKeywordMatches(
             IF /\ IsStandardDoc(BaseName(Head(results).path))
                /\ ~\E d \in 1..Len(found) : found[d].path = Head(results).path
             THEN Append(found, KeywordMatchDoc(Head(results))) ELSE found,
             Tail(results))

MaxSearchKeywords == 5

\* pass 2 of locate_standard_documents, from the n-th searched path on
RECURSIVE LocateByKeyword(_, _, _, _, _, _)
LocateByKeyword(found, drive, searched_paths, search_keywords, max_results, n) ==
    IF n > Len(searched_paths) THEN found
    ELSE Only({Only({Only({
             IF Len(more) >= max_results THEN more
             ELSE LocateByKeyword(more, drive, searched_paths, search_keywords,
                                  max_results, n + 1) :
         more \in {AppendKeywordMatches(found, keyword_results.results)}}) :
         keyword_results \in {SearchDocuments(dir.state, dir.tree, keywords,
                                              max_results - Len(found), TRUE)}}) :
         dir \in {DirAt(drive, searched_paths[n])},
         keywords \in {Take(search_keywords, MaxSearchKeywords)}})

\* found_documents.sort(key=lambda x: x.get("score", 0), reverse=True)
SortDocuments(found) ==
    LET keyed == [d \in 1..Len(found) |->
                     [score |-> IF found[d].score = None THEN 0 ELSE found[d].score[1],
                      doc |-> found[d]]]
        sorted == SortByScore(keyed)
    IN  [d \in 1..Len(sorted) |-> sorted[d].doc]

DefaultMaxResults == 20

\* locate_standard_documents(root_dir, custom_paths, custom_keywords, max_results)
LocateStandardDocuments(drive, custom_paths, custom_keywords, max_results) ==
    LET search_paths == IF custom_paths # <<>> THEN custom_paths ELSE DefaultStandardPaths
        search_keywords == IF custom_keywords # <<>> THEN custom_keywords
                           ELSE DefaultStandardKeywords
    IN  Only({Only({
            [documents |-> SliceTo(SortDocuments(found), max_results),
             total_found |-> Len(found),
             searched_paths |-> pass1.searched,
             inaccessible_paths |-> pass1.inaccessible,
             suggestions |-> found = <<>>] :
        found \in {IF Len(pass1.found) < max_results /\ pass1.searched # <<>>
                   THEN LocateByKeyword(pass1.found, drive, pass1.searched, search_keywords,
                                        max_results, 1)
                   ELSE pass1.found}}) :
        pass1 \in {LocateByPath([found |-> <<>>, searched |-> <<>>, inaccessible |-> <<>>],
                                drive, search_paths, 1)}})

-----------------------------------------------------------------------------
(* Building the project checklist, the StandardLocator and review_code.    *)

DriveItems(drive) ==
    UNION {{drive[d].tree[i] : i \in 1..Len(drive[d].tree)} : d \in DOMAIN drive}

\* the file read_text_file finds at a relative path of the drive
DocumentAt(drive, doc_path) ==
    LET items == {item \in DriveItems(drive) : item.path = doc_path}
        item == CHOOSE x \in items : TRUE
    IN  IF items = {} THEN FileMissing
        ELSE IF ~item.is_file THEN FileIsDir
        ELSE IF item.fault # "none" THEN FileUnreadable
        ELSE FileWith(item.content)

DefaultMaxDocuments == 10

\* build_project_checklist(root_dir, doc_paths, auto_locate, custom_search_paths,
\* custom_keywords, max_documents); an exception of an extraction propagates
BuildProjectChecklist(drive, doc_paths, auto_locate, custom_search_paths, custom_keywords, max_documents) ==
    Only({Only({
        LET succeeded == {n \in 1..Len(target_docs) : extracted[n].error = None}
            merged == StandardChecklist("{xiangmu}{guifan}{jiancha}{qingdan}",
                          Dedupe(SelectSeq(target_docs,
                              LAMBDA doc_path : \E n \in succeeded : target_docs[n] = doc_path)),
                          Flatten([n \in 1..Len(target_docs) |->
                              IF n \in succeeded
                              THEN [r \in 1..Len(extracted[n].checklist[1].rules) |->
                                       RuleFromDict(extracted[n].checklist[1].rules[r])]
                              ELSE <<>>]))
        IN  IF target_docs = <<>>
            THEN [raised |-> None, error |-> Some("no documents"), checklist |-> None,
                  processed_documents |-> <<>>, source |-> None]
            ELSE IF \E n \in 1..Len(target_docs) : extracted[n].raised # None
            THEN [raised |-> Some("PermissionError"), error |-> None, checklist |-> None,
                  processed_documents |-> <<>>, source |-> None]
            ELSE [raised |-> None, error |-> None, checklist |-> Some(ChecklistToDict(merged)),
                  processed_documents |->
                      [n \in 1..Len(target_docs) |->
                          [path |-> target_docs[n],
                           status |-> IF n \in succeeded THEN "success" ELSE "failed"]],
                  source |-> None] :
    extracted \in {[n \in 1..Len(target_docs) |->
                      Only({ExtractChecklistFromDocument(target_docs[n], doc) :
                               doc \in {DocumentAt(drive, target_docs[n])}})]}}) :
    target_docs \in
        {IF doc_paths # None /\ doc_paths[1] # <<>> THEN SliceTo(doc_paths[1], max_documents)
         ELSE IF auto_locate
         THEN Only({[d \in 1..Len(located.documents) |-> located.documents[d].path] :
                       located \in {LocateStandardDocuments(drive, custom_search_paths,
                                                            custom_keywords, max_documents)}})
         ELSE <<>>}})

\* StandardLocator.__init__
StandardLocator(custom_paths, custom_keywords) ==
    [custom_paths |-> custom_paths, custom_keywords |-> custom_keywords,
     located_documents |-> None, checklist |-> None, last_locate_result |-> None]

\* StandardLocator.locate(force_refresh): the locator afterwards and the result
LocatorLocate(loc, drive, force_refresh) ==
    IF loc.last_locate_result # None /\ ~force_refresh
    THEN [locator |-> loc, result |-> loc.last_locate_result[1]]
    ELSE Only({[locator |-> [loc EXCEPT !.located_documents = Some(locate_result.documents),
                                        !.last_locate_result = Some(locate_result)],
                result |-> locate_result] :
         locate_result \in {LocateStandardDocuments(drive, loc.custom_paths,
                                                    loc.custom_keywords, DefaultMaxResults)}})

\* StandardLocator.get_located_documents()
GetLocatedDocuments(loc, drive) ==
    Only({[locator |-> located, result |-> located.located_documents[1]] :
    located \in {IF loc.located_documents = None THEN LocatorLocate(loc, drive, FALSE).locator
                 ELSE loc}})

\* StandardLocator.build_checklist(doc_paths, force_refresh): the locator
\* afterwards and the result. What it keeps in _checklist is a new
\* StandardChecklist that has the name of the built one and nothing else
LocatorBuildChecklist(loc, drive, doc_paths, force_refresh) ==
    IF loc.checklist # None /\ ~force_refresh /\ doc_paths = None
    THEN [locator |-> loc,
          result |-> [raised |-> None, error |-> None,
                      checklist |-> Some(ChecklistToDict(loc.checklist[1])),
                      processed_documents |-> <<>>, source |-> Some("cache")]]
    ELSE Only({Only({Only({
             [locator |-> IF build_result.checklist # None
                          THEN [got.locator EXCEPT !.checklist =
                                   Some(StandardChecklist(build_result.checklist[1].name,
                                                          <<>>, <<>>))]
                          ELSE got.locator,
              result |-> build_result] :
         build_result \in {BuildProjectChecklist(drive, Some(paths), FALSE, <<>>, <<>>,
                                                 DefaultMaxDocuments)}}) :
         paths \in {IF doc_paths = None THEN [d \in 1..Len(got.result) |-> got.result[d].path]
                    ELSE doc_paths[1]}}) :
         got \in {IF doc_paths = None THEN GetLocatedDocuments(loc, drive)
                  ELSE [locator |-> loc, result |-> <<>>]}})

\* CodeReviewer.ensure_checklist() of a reviewer made with a locator and no
\* checklist: the locator afterwards and the rules of the reviewer's checklist
EnsureChecklistFromLocator(loc, drive) ==
    Only({
        IF built.result.raised # None
        THEN [locator |-> built.locator, raised |-> built.result.raised, rules |-> <<>>]
        ELSE IF built.result.checklist = None
        THEN [locator |-> built.locator, raised |-> Some("AttributeError"), rules |-> <<>>]
        ELSE [locator |-> built.locator, raised |-> None,
              rules |-> [r \in 1..Len(built.result.checklist[1].rules) |->
                            RuleFromDict(built.result.checklist[1].rules[r])]] :
    built \in {LocatorBuildChecklist(loc, drive, None, FALSE)}})

ReviewFailure(error) ==
    [ok |-> FALSE, error |-> Some(error), report |-> None, file_results |-> None,
     documents |-> <<>>, rules_count |-> 0]

\* review_code(root_dir, code, file_path, file_paths, diff_content, ...): the
\* locator it made, the rules of the reviewer's checklist and the dictionary
\* returned; disk holds the files of the workspace
ReviewCode(drive, in, disk) ==
    Only({Only({Only({
    LET rules == ensured.rules
        snippet_path == IF in.file_path # None /\ in.file_path[1] # ""
                        THEN in.file_path[1] ELSE "<snippet>"
        needs_checklist == ~(in.code = None /\ in.file_path # None
                             /\ ReviewFileFails(disk[in.file_path[1]]))
        file_results ==
            IF in.code # None THEN <<ReviewCodeSnippet(rules, in.code[1], snippet_path)>>
            ELSE IF in.file_path # None
            THEN <<ReviewFile(rules, in.file_path[1], disk[in.file_path[1]])>>
            ELSE IF in.file_paths # None THEN ReviewFiles(rules, in.file_paths[1], disk)
            ELSE ReviewDiff(rules, in.diff_content[1])
    IN  IF located.result.documents = <<>>
        THEN [locator |-> located.locator, rules |-> None,
              envelope |-> ReviewFailure("no standard documents")]
        ELSE IF built.result.raised # None
        THEN [locator |-> built.locator, rules |-> None,
              envelope |-> ReviewFailure("exception")]
        ELSE IF built.result.checklist = None
        THEN [locator |-> built.locator, rules |-> None,
              envelope |-> ReviewFailure("no checklist")]
        ELSE IF in.code = None /\ in.file_path = None /\ in.file_paths = None
                /\ in.diff_content = None
        THEN [locator |-> built.locator, rules |-> None,
              envelope |-> ReviewFailure("no input")]
        ELSE IF needs_checklist /\ ensured.raised # None
        THEN [locator |-> ensured.locator, rules |-> None,
              envelope |-> ReviewFailure("exception")]
        ELSE [locator |-> IF needs_checklist THEN ensured.locator ELSE built.locator,
              rules |-> IF needs_checklist THEN Some(rules) ELSE None,
              envelope |->
                  [ok |-> TRUE, error |-> None, report |-> Some(ReportToDict(file_results)),
                   file_results |-> Some(file_results),
                   documents |-> [d \in 1..Len(located.result.documents) |->
                                     located.result.documents[d].path],
                   rules_count |-> built.result.checklist[1].total_rules]] :
    ensured \in {EnsureChecklistFromLocator(built.locator, drive)}}) :
    built \in {LocatorBuildChecklist(located.locator, drive, None, FALSE)}}) :
    located \in {LocatorLocate(StandardLocator(in.custom_standard_paths,
                                               in.custom_standard_keywords), drive, FALSE)}})

-----------------------------------------------------------------------------
(* The shared drives and the inputs of review_code.                        *)

MaxStandardItems == 2

StandardItems ==
    {Item("Standards/naming.md", "naming.md", <<"Standards", "share", "">>,
          "# Naming\n- Foo is forbidden in bar\n## Style\n- Never use bar here", TRUE, "none"),
     Item("Standards/style.txt", "style.txt", <<"Standards", "share", "">>,
          "- Tabs should be avoided", TRUE, "none"),
     Item("Standards/logo.png", "logo.png", <<"Standards", "share", "">>, "", TRUE, "none"),
     Item("Standards/empty.md", "empty.md", <<"Standards", "share", "">>, "", TRUE, "none"),
     Item("Standards/locked.md", "locked.md", <<"Standards", "share", "">>,
          "- Foo is forbidden", TRUE, "read")}

StandardTrees ==
    {t \in SeqsUpTo(StandardItems, MaxStandardItems) : \A i, j \in 1..Len(t) : t[i] = t[j] => i = j}

Drives == {<<>>} \cup {("Standards" :> [state |-> "dir", tree |-> t]) : t \in StandardTrees}

ReviewInput(code, file_path, file_paths, diff_content, custom_standard_paths) ==
    [code |-> code, file_path |-> file_path, file_paths |-> file_paths,
     diff_content |-> diff_content, custom_standard_paths |-> custom_standard_paths,
     custom_standard_keywords |-> <<>>]

ReviewInputs ==
    {ReviewInput(Some(code), None, None, None, <<>>) : code \in {"Foo bar", "never\nTabs", "y = 1"}}
    \cup {ReviewInput(Some("Foo bar"), Some("a.py"), None, None, <<>>),
          ReviewInput(Some("Foo bar"), None, None, None, <<"Guidelines">>),
          ReviewInput(None, None, None, None, <<>>)}
    \cup {ReviewInput(None, Some(file_path), None, None, <<>>) : file_path \in Paths}
    \cup {ReviewInput(None, None, Some(file_paths), None, <<>>) :
             file_paths \in SeqsUpTo(Paths, MaxPaths)}
    \cup {ReviewInput(None, None, None, Some(RenderDiff(items)), <<>>) :
             items \in {<<DiffFile("a.py"), DiffLine("added", "Foo bar")>>,
                        <<DiffFile("a.py"), DiffLine("added", "y = 1")>>}}

Disks ==
    {[file_path \in Paths |-> IF file_path = "a.py" THEN a ELSE FileWith("y = 1\nfoo BAR")] :
        a \in {FileUnreadable, FileWith("Foo bar")}}

InitPipeline == NoReview /\ NoDiff /\ NoSearch /\ NoExtract /\ NoPipeline /\ NoLocator /\ NoGuard /\ NoUpload /\ NoLocate /\ NoChain /\ NoEntry /\ NoViolation /\ NoRead /\ NoPlaced

ReviewCodeCall ==
    /\ reviewOp = "none"
    /\ \E drive \in Drives, in \in ReviewInputs, disk \in Disks :
        \E done \in {ReviewCode(drive, in, disk)} :
            /\ reviewOp' = "review_code"
            /\ reviewIn' = [drive |-> drive, input |-> in, disk |-> disk]
            /\ outcome' = "ok"
            /\ checklist' = done.rules
            /\ result' = None
            /\ report' = done.envelope.file_results
            /\ reportDict' = done.envelope.report
            /\ locator' = Some(done.locator)
            /\ envelope' = Some(done.envelope)
    /\ UNCHANGED <<diffVars, searchVars, extractVars, locatorVars, guardVars, uploadVars, locateVars, chainVars, entryVars, violationVars, readVars, placedVars>>

ReviewCodeReturn ==
    /\ reviewOp = "review_code"
    /\ reviewOp' = "none"
    /\ reviewIn' = None
    /\ outcome' = "ok"
    /\ checklist' = None
    /\ result' = None
    /\ report' = None
    /\ reportDict' = None
    /\ locator' = None
    /\ envelope' = None
    /\ UNCHANGED <<diffVars, searchVars, extractVars, locatorVars, guardVars, uploadVars, locateVars, chainVars, entryVars, violationVars, readVars, placedVars>>

NextPipeline == ReviewCodeCall \/ ReviewCodeReturn

SpecPipeline == InitPipeline /\ [][NextPipeline]_vars

-----------------------------------------------------------------------------
(* Claims about review_code.                                               *)

Reviewed == reviewOp = "review_code" /\ envelope # None /\ envelope[1].ok

\* the rules extracted from the located standard documents, as
\* build_project_checklist returns them for the locator's search settings
BuiltRules ==
    LET built == BuildProjectChecklist(reviewIn.drive, None, TRUE,
                                       reviewIn.input.custom_standard_paths,
                                       reviewIn.input.custom_standard_keywords,
                                       DefaultMaxDocuments)
    IN  IF built.checklist = None THEN <<>>
        ELSE [n \in 1..Len(built.checklist[1].rules) |-> RuleFromDict(built.checklist[1].rules[n])]

\* a keyword of the rule occurs on a line of the code and the violation
\* predicate is true of that line
RuleApplies(rule, code) ==
    LET lines == SplitLines(code)
    IN  \E n \in 1..Len(lines), k \in 1..Len(rule.keywords) :
            /\ Contains(Lower(lines[n]), Lower(rule.keywords[k]))
            /\ IsViolationPattern(rule, lines[n], rule.keywords[k])

ReportedRuleIds ==
    UNION {{report[1][f].issues[i].rule_id : i \in 1..Len(report[1][f].issues)} :
              f \in 1..Len(report[1])}

\* C2: in review_code the checklist the reviewer matches the code against
\* holds every rule extracted from the located documents: a rule of the
\* built checklist whose keyword occurs in the reviewed code and whose
\* violation predicate is true yields an issue in the returned report.
C2_ReviewUsesEveryExtractedRule ==
    (Reviewed /\ reviewIn.input.code # None) =>
        /\ checklist = Some(BuiltRules)
        /\ \A n \in 1..Len(BuiltRules) :
              RuleApplies(BuiltRules[n], reviewIn.input.code[1])
              => BuiltRules[n].rule_id \in ReportedRuleIds

\* the reviewer of review_code works from the checklist cached by the
\* locator, which holds no rule
ReviewCodeChecklistIsEmpty ==
    (Reviewed /\ checklist # None) => checklist[1] = <<>>

\* the count of rules review_code reports is the count of the built checklist
ReviewCodeCountsBuiltRules ==
    Reviewed => envelope[1].rules_count = Len(BuiltRules)

-----------------------------------------------------------------------------
(* A StandardLocator instance and its memoized results. The shared drive   *)
(* is outside the program and may change between two calls.                *)

TeamItem ==
    Item("Team/rules.md", "rules.md", <<"Team", "share", "">>,
         "- Bar is forbidden in foo", TRUE, "none")

StandardItem(name) == CHOOSE item \in StandardItems : item.name = name

LocatorDrives ==
    {<<>>,
     "Standards" :> [state |-> "dir", tree |-> <<StandardItem("naming.md")>>],
     "Standards" :> [state |-> "dir",
                     tree |-> <<StandardItem("style.txt"), StandardItem("logo.png")>>],
     ("Standards" :> [state |-> "dir", tree |-> <<StandardItem("naming.md")>>])
        @@ ("Team" :> [state |-> "dir", tree |-> <<TeamItem>>])}

CustomPathLists == {<<>>, <<"Team">>}

CustomKeywordLists == {<<>>, <<"naming">>}

DocPathArguments == {None, Some(<<"Standards/naming.md">>)}

Call(op, force_refresh, doc_paths, returned) ==
    [op |-> op, force_refresh |-> force_refresh, doc_paths |-> doc_paths,
     result |-> returned]

InitLocator == NoReview /\ NoDiff /\ NoSearch /\ NoExtract /\ NoPipeline /\ NoLocator /\ NoGuard /\ NoUpload /\ NoLocate /\ NoChain /\ NoEntry /\ NoViolation /\ NoRead /\ NoPlaced

\* create_standard_locator / StandardLocator.__init__
NewStandardLocator ==
    /\ instance = None
    /\ \E drive \in LocatorDrives, custom_paths \in CustomPathLists,
          custom_keywords \in CustomKeywordLists :
        /\ shared' = Some(drive)
        /\ instance' = Some(StandardLocator(custom_paths, custom_keywords))
        /\ lastCall' = Some(Call("__init__", FALSE, None, None))
    /\ UNCHANGED <<reviewVars, diffVars, searchVars, extractVars, pipelineVars, guardVars, uploadVars, locateVars, chainVars, entryVars, violationVars, readVars, placedVars>>

\* StandardLocator.locate(force_refresh)
Locate ==
    /\ instance # None
    /\ \E force_refresh \in BOOLEAN :
        \E done \in {LocatorLocate(instance[1], shared[1], force_refresh)} :
            /\ instance' = Some(done.locator)
            /\ lastCall' = Some(Call("locate", force_refresh, None, Some(done.result)))
    /\ UNCHANGED <<shared, reviewVars, diffVars, searchVars, extractVars, pipelineVars, guardVars, uploadVars, locateVars, chainVars, entryVars, violationVars, readVars, placedVars>>

\* StandardLocator.set_custom_paths(paths)
SetCustomPaths ==
    /\ instance # None
    /\ \E paths \in CustomPathLists :
        /\ instance' = Some([instance[1] EXCEPT !.custom_paths = paths,
                                                !.located_documents = None,
                                                !.last_locate_result = None,
                                                !.checklist = None])
        /\ lastCall' = Some(Call("set_custom_paths", FALSE, None, None))
    /\ UNCHANGED <<shared, reviewVars, diffVars, searchVars, extractVars, pipelineVars, guardVars, uploadVars, locateVars, chainVars, entryVars, violationVars, readVars, placedVars>>

\* StandardLocator.set_custom_keywords(keywords): _checklist is left as it is
SetCustomKeywords ==
    /\ instance # None
    /\ \E keywords \in CustomKeywordLists :
        /\ instance' = Some([instance[1] EXCEPT !.custom_keywords = keywords,
                                                !.located_documents = None,
                                                !.last_locate_result = None])
        /\ lastCall' = Some(Call("set_custom_keywords", FALSE, None, None))
    /\ UNCHANGED <<shared, reviewVars, diffVars, searchVars, extractVars, pipelineVars, guardVars, uploadVars, locateVars, chainVars, entryVars, violationVars, readVars, placedVars>>

\* StandardLocator.build_checklist(doc_paths, force_refresh)
BuildChecklist ==
    /\ instance # None
    /\ \E doc_paths \in DocPathArguments, force_refresh \in BOOLEAN :
        \E done \in {LocatorBuildChecklist(instance[1], shared[1], doc_paths, force_refresh)} :
            /\ instance' = Some(done.locator)
            /\ lastCall' = Some(Call("build_checklist", force_refresh, doc_paths,
                                     Some(done.result)))
    /\ UNCHANGED <<shared, reviewVars, diffVars, searchVars, extractVars, pipelineVars, guardVars, uploadVars, locateVars, chainVars, entryVars, violationVars, readVars, placedVars>>

\* the content of the shared drive changes
DriveChanges ==
    /\ instance # None
    /\ \E drive \in LocatorDrives \ {shared[1]} : shared' = Some(drive)
    /\ UNCHANGED <<instance, lastCall, reviewVars, diffVars, searchVars, extractVars,
                   pipelineVars, guardVars, uploadVars, locateVars, chainVars,
                   entryVars, violationVars, readVars, placedVars>>

\* the instance is dropped
DropLocator ==
    /\ instance # None
    /\ shared' = None
    /\ instance' = None
    /\ lastCall' = None
    /\ UNCHANGED <<reviewVars, diffVars, searchVars, extractVars, pipelineVars, guardVars, uploadVars, locateVars, chainVars, entryVars, violationVars, readVars, placedVars>>

NextLocator ==
    \/ NewStandardLocator
    \/ Locate
    \/ SetCustomPaths
    \/ SetCustomKeywords
    \/ BuildChecklist
    \/ DriveChanges
    \/ DropLocator

SpecLocator == InitLocator /\ [][NextLocator]_vars

-----------------------------------------------------------------------------
(* Claims about the StandardLocator instance.                              *)

\* what locate_standard_documents finds on the drive with the paths and the
\* keywords the instance has
FreshLocate(drive, loc) ==
    LocateStandardDocuments(drive, loc.custom_paths, loc.custom_keywords, DefaultMaxResults)

\* the checklist built from the documents found that way
FreshChecklist(drive, loc) ==
    BuildProjectChecklist(drive,
        Some([d \in 1..Len(FreshLocate(drive, loc).documents) |->
                 FreshLocate(drive, loc).documents[d].path]),
        FALSE, <<>>, <<>>, DefaultMaxDocuments)

\* the call made last changed paths or keywords or asked for a refresh
Invalidating ==
    /\ lastCall # None
    /\ \/ lastCall[1].op \in {"set_custom_paths", "set_custom_keywords"}
       \/ lastCall[1].force_refresh

\* this step is a call of locate() or of build_checklist()
PlainLocate ==
    /\ Locate
    /\ lastCall'[1].op = "locate"
    /\ ~lastCall'[1].force_refresh

PlainBuildChecklist ==
    /\ BuildChecklist
    /\ lastCall'[1].op = "build_checklist"
    /\ ~lastCall'[1].force_refresh
    /\ lastCall'[1].doc_paths = None

\* C15: after set_custom_paths, set_custom_keywords or a call with
\* force_refresh=True the next locate() and the next build_checklist()
\* recompute from the current paths and keywords: what they return is what
\* the drive holds now, never a result memoized before the change.
C15_ChangeInvalidatesCaches ==
    [][/\ (Invalidating /\ PlainLocate)
            => lastCall'[1].result[1] = FreshLocate(shared'[1], instance'[1])
       /\ (Invalidating /\ PlainBuildChecklist)
            => lastCall'[1].result[1] = FreshChecklist(shared'[1], instance'[1])]_vars

\* after a change of the paths or of the keywords locate() recomputes
LocateAfterChangeRecomputes ==
    [][(/\ lastCall # None
        /\ lastCall[1].op \in {"set_custom_paths", "set_custom_keywords"}
        /\ PlainLocate)
       => lastCall'[1].result[1] = FreshLocate(shared'[1], instance'[1])]_vars

\* after a change of the paths build_checklist() recomputes
BuildAfterPathChangeRecomputes ==
    [][(/\ lastCall # None
        /\ lastCall[1].op = "set_custom_paths"
        /\ PlainBuildChecklist)
       => lastCall'[1].result[1] = FreshChecklist(shared'[1], instance'[1])]_vars

\* after a change of the keywords build_checklist() does not answer from
\* _checklist (it does, whenever a checklist was built before)
BuildAfterKeywordChangeRecomputes ==
    [][(/\ lastCall # None
        /\ lastCall[1].op = "set_custom_keywords"
        /\ PlainBuildChecklist)
       => lastCall'[1].result[1].source # Some("cache")]_vars


\* the call made last built a checklist, not from the cache
FreshlyBuilt ==
    /\ lastCall # None
    /\ lastCall[1].op = "build_checklist"
    /\ lastCall[1].result[1].checklist # None
    /\ lastCall[1].result[1].source # Some("cache")

\* this step is a build_checklist() that is answered from the cache
CachedBuildChecklist == PlainBuildChecklist /\ lastCall'[1].result[1].source = Some("cache")

\* C24: build_checklist is idempotent on an unchanged document tree: a second
\* call without doc_paths and without force_refresh, answered from the cache,
\* returns a checklist with the same rules (same ids, same count) and the same
\* source documents as the first, freshly built call.
C24_CachedChecklistEqualsBuilt ==
    [][(FreshlyBuilt /\ CachedBuildChecklist) =>
          /\ lastCall'[1].result[1].checklist[1].rules = lastCall[1].result[1].checklist[1].rules
          /\ lastCall'[1].result[1].checklist[1].total_rules
                 = lastCall[1].result[1].checklist[1].total_rules
          /\ lastCall'[1].result[1].checklist[1].source_documents
                 = lastCall[1].result[1].checklist[1].source_documents]_vars

\* the checklist answered from the cache has the name of the built one
CachedChecklistKeepsName ==
    [][(FreshlyBuilt /\ CachedBuildChecklist) =>
          lastCall'[1].result[1].checklist[1].name = lastCall[1].result[1].checklist[1].name]_vars

\* the checklist answered from the cache has no rule and no source document
CachedChecklistIsEmpty ==
    [][CachedBuildChecklist =>
          /\ lastCall'[1].result[1].checklist[1].rules = <<>>
          /\ lastCall'[1].result[1].checklist[1].total_rules = 0
          /\ lastCall'[1].result[1].checklist[1].source_documents = <<>>]_vars

\* a build that is answered from the cache does follow a fresh build that
\* has rules
NoCachedBuildAfterFreshBuild ==
    [][~(/\ FreshlyBuilt
         /\ lastCall[1].result[1].checklist[1].rules # <<>>
         /\ CachedBuildChecklist)]_vars

-----------------------------------------------------------------------------
(* path_guard.normalize_and_validate_path on a POSIX system. A path is a   *)
(* string; the file system is known by its symbolic links, a function from *)
(* the absolute path of a link to the real path it points to.              *)

\* stands for the character \x00, that a string of this module cannot hold
Nul == "^"

RECURSIVE ReplaceBackslash(_)
ReplaceBackslash(s) ==
    IF s = "" THEN ""
    ELSE (IF Ch(s, 1) = "\\" THEN "/" ELSE Ch(s, 1)) \o ReplaceBackslash(Rest(s, 2))

\* s.split("/")
RECURSIVE SplitPath(_)
SplitPath(s) ==
    LET i == FindCh(s, "/", 1)
    IN  IF i = 0 THEN <<s>>
        ELSE <<SubSeq(s, 1, i - 1)>> \o SplitPath(Rest(s, i + 1))

\* posixpath.normpath of an absolute path, on its components: empty and "."
\* components are dropped, ".." drops the component before it, if any
RECURSIVE Collapse(_, _)
Collapse(comps, kept) ==
    IF comps = <<>> THEN kept
    ELSE IF Head(comps) \in {"", "."} THEN Collapse(Tail(comps), kept)
    ELSE IF Head(comps) = ".."
    THEN Collapse(Tail(comps), SubSeq(kept, 1, Len(kept) - 1))
    ELSE Collapse(Tail(comps), Append(kept, Head(comps)))

RECURSIVE JoinPath(_)
JoinPath(comps) == IF comps = <<>> THEN "" ELSE "/" \o Head(comps) \o JoinPath(Tail(comps))

\* the components of an absolute path
Parts(path) == Collapse(SplitPath(path), <<>>)

\* os.path.abspath of an absolute path
AbsPath(path) == IF Parts(path) = <<>> THEN "/" ELSE JoinPath(Parts(path))

\* os.path.realpath(path) from the components rest on, done being resolved
RECURSIVE ResolveLinks(_, _, _)
ResolveLinks(done, rest, links) ==
    IF rest = <<>> THEN (IF done = "" THEN "/" ELSE done)
    ELSE IF (done \o "/" \o Head(rest)) \in DOMAIN links
    THEN ResolveLinks(links[done \o "/" \o Head(rest)], Tail(rest), links)
    ELSE ResolveLinks(done \o "/" \o Head(rest), Tail(rest), links)

RealPath(path, links) == ResolveLinks("", Parts(path), links)

\* _is_same_or_child_path(child, parent): child.relative_to(parent) succeeds
IsSameOrChildPath(child, parent) ==
    /\ Len(Parts(parent)) <= Len(Parts(child))
    /\ SubSeq(Parts(child), 1, Len(Parts(parent))) = Parts(parent)

PathNotAllowed == [raised |-> Some("PathNotAllowedError"), path |-> None]

\* normalize_and_validate_path(root_dir, user_path): the path returned or the
\* exception raised. os.lstat, called by os.path.realpath on every component,
\* raises ValueError for a path with a null byte
NormalizeAndValidatePath(root_dir, user_path, links) ==
    LET root_abs == AbsPath(root_dir)
        root_real == RealPath(root_abs, links)
        stripped == Strip(ReplaceBackslash(IF user_path = None THEN "." ELSE user_path[1]))
        user_path_norm == IF stripped = "" THEN "." ELSE stripped
        combined_abs == AbsPath(root_abs \o "/" \o user_path_norm)
    IN  IF StartsWith(user_path_norm, "/") THEN PathNotAllowed
        ELSE IF Len(user_path_norm) >= 2 /\ Ch(user_path_norm, 2) = ":" THEN PathNotAllowed
        ELSE IF ~IsSameOrChildPath(combined_abs, root_abs) THEN PathNotAllowed
        ELSE IF Contains(combined_abs, Nul) THEN [raised |-> Some("ValueError"), path |-> None]
        ELSE IF ~IsSameOrChildPath(RealPath(combined_abs, links), root_real)
        THEN PathNotAllowed
        ELSE [raised |-> None, path |-> Some(combined_abs)]

MaxPathTokens == 3

PathTokens == {"a/", "b", "../", "..", "./", "/", "\\", "C:", " ", Nul, "out", "share/"}

RECURSIVE ConcatAll(_)
ConcatAll(ss) == IF ss = <<>> THEN "" ELSE Head(ss) \o ConcatAll(Tail(ss))

UserPaths == {None} \cup {Some(ConcatAll(t)) : t \in SeqsUpTo(PathTokens, MaxPathTokens)}

Roots == {"/srv/share", "/srv/link"}

LinkSets ==
    {<<>>, ("/srv/share/out" :> "/tmp") @@ ("/srv/link" :> "/srv/share")}

InitGuard ==
    NoReview /\ NoDiff /\ NoSearch /\ NoExtract /\ NoPipeline /\ NoLocator /\ NoGuard /\ NoUpload /\ NoLocate /\ NoChain /\ NoEntry /\ NoViolation /\ NoRead /\ NoPlaced

NormalizePathCall ==
    /\ guardIn = None
    /\ \E root_dir \in Roots, user_path \in UserPaths, links \in LinkSets :
        /\ guardIn' = Some([root_dir |-> root_dir, user_path |-> user_path, links |-> links])
        /\ guardOut' = Some(NormalizeAndValidatePath(root_dir, user_path, links))
    /\ UNCHANGED <<reviewVars, diffVars, searchVars, extractVars, pipelineVars, locatorVars, uploadVars, locateVars, chainVars, entryVars, violationVars, readVars, placedVars>>

NormalizePathReturn ==
    /\ guardIn # None
    /\ guardIn' = None
    /\ guardOut' = None
    /\ UNCHANGED <<reviewVars, diffVars, searchVars, extractVars, pipelineVars, locatorVars, uploadVars, locateVars, chainVars, entryVars, violationVars, readVars, placedVars>>

NextGuard == NormalizePathCall \/ NormalizePathReturn

SpecGuard == InitGuard /\ [][NextGuard]_vars

-----------------------------------------------------------------------------
(* Claims about normalize_and_validate_path.                               *)

Guarded == guardIn # None

\* the path given, with "/" for "\" and without the white space around it
GivenPath ==
    IF guardIn[1].user_path = None THEN "."
    ELSE Strip(ReplaceBackslash(guardIn[1].user_path[1]))

Denied == guardOut[1].raised = Some("PathNotAllowedError")

ReturnedPath(path) == guardOut[1].raised = None /\ guardOut[1].path = Some(path)

\* root or a descendant of root
UnderRoot(path) ==
    \/ path = guardIn[1].root_dir
    \/ StartsWith(path, guardIn[1].root_dir \o "/")

\* walking the components from root, a ".." is met at root itself
RECURSIVE ClimbsAbove(_, _)
ClimbsAbove(comps, depth) ==
    IF comps = <<>> THEN FALSE
    ELSE IF Head(comps) \in {"", "."} THEN ClimbsAbove(Tail(comps), depth)
    ELSE IF Head(comps) = ".." THEN depth = 0 \/ ClimbsAbove(Tail(comps), depth - 1)
    ELSE ClimbsAbove(Tail(comps), depth + 1)

\* where the walk over the components ends, begun at the directory at
RECURSIVE WalkFrom(_, _)
WalkFrom(comps, at) ==
    IF comps = <<>> THEN at
    ELSE IF Head(comps) \in {"", "."} THEN WalkFrom(Tail(comps), at)
    ELSE IF Head(comps) = ".." THEN WalkFrom(Tail(comps), SubSeq(at, 1, Len(at) - 1))
    ELSE WalkFrom(Tail(comps), Append(at, Head(comps)))

\* the walk begun at root ends above root or beside it
EndsOutside ==
    LET root == SplitPath(Rest(guardIn[1].root_dir, 2))
        at == WalkFrom(SplitPath(GivenPath), root)
    IN  Len(at) < Len(root) \/ SubSeq(at, 1, Len(root)) # root

\* C18: normalize_and_validate_path(root, p) either fails with the
\* access-denied error or returns root or a descendant of root; it fails for
\* an absolute path, for a drive-letter path and for a path whose ".."
\* components climb above root, and a/../b succeeds and is root/b.
C18_PathStaysUnderRoot ==
    Guarded =>
        /\ Denied \/ (guardOut[1].raised = None /\ UnderRoot(guardOut[1].path[1]))
        /\ StartsWith(GivenPath, "/") => Denied
        /\ (Len(GivenPath) >= 2 /\ Ch(GivenPath, 2) = ":") => Denied
        /\ ClimbsAbove(SplitPath(GivenPath), 0) => Denied
        /\ GivenPath = "a/../b" => ReturnedPath(guardIn[1].root_dir \o "/b")

\* the same for the paths without a null byte, a path being denied for its
\* ".." components when they lead out of root in the end
PathStaysUnderRootWithoutNul ==
    (Guarded /\ ~Contains(GivenPath, Nul)) =>
        /\ Denied \/ (guardOut[1].raised = None /\ UnderRoot(guardOut[1].path[1]))
        /\ StartsWith(GivenPath, "/") => Denied
        /\ (Len(GivenPath) >= 2 /\ Ch(GivenPath, 2) = ":") => Denied
        /\ EndsOutside => Denied
        /\ GivenPath = "a/../b" => ReturnedPath(guardIn[1].root_dir \o "/b")

\* a call never ends with an exception other than the access-denied error
OnlyAccessDeniedIsRaised ==
    Guarded => guardOut[1].raised \in {None, Some("PathNotAllowedError")}

\* a path that climbs above root on its way is denied
ClimbingPathIsDenied ==
    (Guarded /\ ClimbsAbove(SplitPath(GivenPath), 0)) => Denied

\* a path that is returned is root or a descendant of root
ReturnedPathIsUnderRoot ==
    (Guarded /\ guardOut[1].raised = None) => UnderRoot(guardOut[1].path[1])

-----------------------------------------------------------------------------
(* DocStore.upload_file. The files are a function from absolute paths to   *)
(* contents; a directory exists when a file lies below it, and the root    *)
(* always does.                                                            *)

UploadRoot == "/srv/share"

\* DocStore(root_dir, upload_max_bytes)
UploadMaxBytes == 4

IsDirAt(files, path) ==
    \/ path = UploadRoot
    \/ \E f \in DOMAIN files : StartsWith(f, path \o "/")

\* Path.exists()
PathExists(files, path) == path \in DOMAIN files \/ IsDirAt(files, path)

\* Path.parent of an absolute path
ParentOf(path) == SubSeq(path, 1, Len(path) - Len(BaseName(path)) - 1)

\* dest.with_name(f"{stem}_{i}{suffix}")
Candidate(dest, i) ==
    ParentOf(dest) \o "/" \o Stem(BaseName(dest)) \o "_" \o IntToStr(i)
        \o Suffix(BaseName(dest))

\* _resolve_conflict(dest, conflict)
ResolveConflict(files, dest, conflict) ==
    IF ~PathExists(files, dest) THEN dest
    ELSE IF conflict = "overwrite" THEN dest
    ELSE Candidate(dest, Min({i \in 1..(Cardinality(DOMAIN files) + 1) :
                                 ~PathExists(files, Candidate(dest, i))}))

\* dest.relative_to(root_abs), None when it raises ValueError
RelativeToRoot(path) ==
    IF path = UploadRoot THEN Some(".")
    ELSE IF StartsWith(path, UploadRoot \o "/") THEN Some(Rest(path, Len(UploadRoot) + 2))
    ELSE None

UploadFailure(files, error) ==
    [files |-> files, result |-> [success |-> FALSE, path |-> None, error |-> Some(error)]]

\* dest.write_text(content) and the return that follows it
WriteAndReturn(files, dest, content) ==
    IF IsDirAt(files, dest) THEN UploadFailure(files, "IsADirectoryError")
    ELSE IF RelativeToRoot(dest) = None
    THEN UploadFailure((dest :> content) @@ files, "ValueError")
    ELSE [files |-> (dest :> content) @@ files,
          result |-> [success |-> TRUE, path |-> RelativeToRoot(dest), error |-> None]]

\* DocStore.upload_file(rel_path, content, conflict): the files afterwards and
\* the dictionary returned
DocStoreUploadFile(files, rel_path, content, conflict) ==
    LET guard == NormalizeAndValidatePath(UploadRoot, Some(rel_path), <<>>)
        dest == guard.path[1]
    IN  IF Len(content) > UploadMaxBytes THEN UploadFailure(files, "too large")
        ELSE IF guard.raised # None THEN UploadFailure(files, guard.raised[1])
        ELSE IF \E f \in DOMAIN files : StartsWith(dest, f \o "/")
        THEN UploadFailure(files, "FileExistsError")
        ELSE IF PathExists(files, dest) /\ conflict = "error"
        THEN UploadFailure(files, "exists")
        ELSE IF PathExists(files, dest) /\ conflict = "rename"
        THEN WriteAndReturn(files, ResolveConflict(files, dest, conflict), content)
        ELSE WriteAndReturn(files, dest, content)

MaxFiles == 3

UploadPaths == {"a.txt", "docs/a.txt", "docs/../a.txt", "."}

UploadContents == {"v1", "v2", "12345"}

ConflictPolicies == {"error", "overwrite", "rename", "skip"}

InitUpload ==
    NoReview /\ NoDiff /\ NoSearch /\ NoExtract /\ NoPipeline /\ NoLocator /\ NoGuard /\ NoUpload /\ NoLocate /\ NoChain /\ NoEntry /\ NoViolation /\ NoRead /\ NoPlaced

UploadFileCall ==
    /\ uploadIn = None
    /\ Cardinality(DOMAIN rootFiles) < MaxFiles
    /\ \E rel_path \in UploadPaths, content \in UploadContents, conflict \in ConflictPolicies :
        \E done \in {DocStoreUploadFile(rootFiles, rel_path, content, conflict)} :
            /\ uploadIn' = Some([rel_path |-> rel_path, content |-> content,
                                 conflict |-> conflict, before |-> rootFiles])
            /\ uploadOut' = Some(done.result)
            /\ rootFiles' = done.files
    /\ UNCHANGED <<reviewVars, diffVars, searchVars, extractVars, pipelineVars, locatorVars,
                   guardVars, locateVars, chainVars, entryVars, violationVars,
                   readVars, placedVars>>

UploadReturn ==
    /\ uploadIn # None
    /\ uploadIn' = None
    /\ uploadOut' = None
    /\ UNCHANGED <<rootFiles, reviewVars, diffVars, searchVars, extractVars, pipelineVars,
                   locatorVars, guardVars, locateVars, chainVars, entryVars,
                   violationVars, readVars, placedVars>>

NextUpload == UploadFileCall \/ UploadReturn

SpecUpload == InitUpload /\ [][NextUpload]_vars

-----------------------------------------------------------------------------
(* Claims about DocStore.upload_file.                                      *)

Uploaded == uploadIn # None

FilesBefore == uploadIn[1].before

\* the destination the call names
Destination == AbsPath(UploadRoot \o "/" \o uploadIn[1].rel_path)

\* a path that existed before the call has another content after it
ExistingChanged ==
    \E f \in DOMAIN FilesBefore : rootFiles[f] # FilesBefore[f]

\* C20: DocStore.upload_file changes an existing destination only with the
\* policy overwrite; with rename it leaves the existing file as it is and
\* writes to a new path; with error, the default, or any other policy it fails
\* and no file is created or modified; content larger than upload_max_bytes is
\* rejected and nothing is created or modified.
C20_UploadRespectsConflictPolicy ==
    Uploaded =>
        /\ ExistingChanged => uploadIn[1].conflict = "overwrite"
        /\ (uploadIn[1].conflict = "rename" /\ Destination \in DOMAIN FilesBefore
                /\ Len(uploadIn[1].content) <= UploadMaxBytes)
            => /\ ~ExistingChanged
               /\ uploadOut[1].success
               /\ (UploadRoot \o "/" \o uploadOut[1].path[1]) \notin DOMAIN FilesBefore
               /\ rootFiles[UploadRoot \o "/" \o uploadOut[1].path[1]] = uploadIn[1].content
        /\ (uploadIn[1].conflict \notin {"overwrite", "rename"}
                /\ Destination \in DOMAIN FilesBefore)
            => ~uploadOut[1].success /\ rootFiles = FilesBefore
        /\ Len(uploadIn[1].content) > UploadMaxBytes
            => ~uploadOut[1].success /\ rootFiles = FilesBefore

\* the same for the three policies the method documents
UploadRespectsDocumentedPolicies ==
    (Uploaded /\ uploadIn[1].conflict \in {"error", "overwrite", "rename"})
    =>  /\ ExistingChanged => uploadIn[1].conflict = "overwrite"
        /\ (uploadIn[1].conflict = "rename" /\ Destination \in DOMAIN FilesBefore
                /\ Len(uploadIn[1].content) <= UploadMaxBytes)
            => /\ ~ExistingChanged
               /\ uploadOut[1].success
               /\ (UploadRoot \o "/" \o uploadOut[1].path[1]) \notin DOMAIN FilesBefore
               /\ rootFiles[UploadRoot \o "/" \o uploadOut[1].path[1]] = uploadIn[1].content
        /\ (uploadIn[1].conflict = "error" /\ Destination \in DOMAIN FilesBefore)
            => ~uploadOut[1].success /\ rootFiles = FilesBefore
        /\ Len(uploadIn[1].content) > UploadMaxBytes
            => ~uploadOut[1].success /\ rootFiles = FilesBefore

\* a call that fails creates no file and modifies none
FailedUploadChangesNothing ==
    (Uploaded /\ ~uploadOut[1].success) => rootFiles = FilesBefore

-----------------------------------------------------------------------------
(* locate_standard_documents called with search paths of the caller.       *)

DeepItem ==
    Item("Standards/sub/deep.md", "deep.md", <<"sub", "Standards", "share", "">>,
         "- Deep names must be short", TRUE, "none")

\* a drive whose directory Standards holds a document and the directory sub
NestedDrive ==
    ("Standards" :> [state |-> "dir", tree |-> <<StandardItem("naming.md"), DeepItem>>])
    @@ ("Standards/sub" :> [state |-> "dir", tree |-> <<DeepItem>>])
    @@ ("Team" :> [state |-> "dir", tree |-> <<TeamItem>>])

LocateDrives == LocatorDrives \cup {NestedDrive}

SearchPathLists ==
    {<<>>, <<"Team">>, <<"Standards", "Team">>, <<"Team", "Team">>,
     <<"Standards", "Standards/sub">>, <<"Standards/sub", "Missing">>}

MaxLocateResults == 3

InitLocate ==
    NoReview /\ NoDiff /\ NoSearch /\ NoExtract /\ NoPipeline /\ NoLocator /\ NoGuard /\ NoUpload /\ NoLocate /\ NoChain /\ NoEntry /\ NoViolation /\ NoRead /\ NoPlaced

LocateStandardDocumentsCall ==
    /\ locateIn = None
    /\ \E drive \in LocateDrives, custom_paths \in SearchPathLists,
          custom_keywords \in CustomKeywordLists, max_results \in 0..MaxLocateResults :
        /\ locateIn' = Some([drive |-> drive, custom_paths |-> custom_paths,
                             custom_keywords |-> custom_keywords,
                             max_results |-> max_results])
        /\ locateOut' = Some(LocateStandardDocuments(drive, custom_paths, custom_keywords,
                                                     max_results))
    /\ UNCHANGED <<reviewVars, diffVars, searchVars, extractVars, pipelineVars, locatorVars,
                   guardVars, uploadVars, chainVars, entryVars, violationVars,
                   readVars, placedVars>>

LocateReturn ==
    /\ locateIn # None
    /\ locateIn' = None
    /\ locateOut' = None
    /\ UNCHANGED <<reviewVars, diffVars, searchVars, extractVars, pipelineVars, locatorVars,
                   guardVars, uploadVars, chainVars, entryVars, violationVars,
                   readVars, placedVars>>

NextLocate == LocateStandardDocumentsCall \/ LocateReturn

SpecLocate == InitLocate /\ [][NextLocate]_vars

-----------------------------------------------------------------------------
(* Claims about locate_standard_documents.                                 *)

Located == locateIn # None

LocatedDocuments == locateOut[1].documents

\* the search paths of the call
SearchPathsOfCall ==
    IF locateIn[1].custom_paths # <<>> THEN locateIn[1].custom_paths
    ELSE DefaultStandardPaths

\* two of the search paths are the same directory, or one lies in the other
SearchPathsOverlap ==
    \E i, j \in 1..Len(SearchPathsOfCall) :
        /\ i # j
        /\ \/ SearchPathsOfCall[i] = SearchPathsOfCall[j]
           \/ StartsWith(SearchPathsOfCall[j], SearchPathsOfCall[i] \o "/")

DocumentPathsDistinct ==
    \A i, j \in 1..Len(LocatedDocuments) :
        LocatedDocuments[i].path = LocatedDocuments[j].path => i = j

\* C19: whatever the search paths, equal or nested ones included, the
\* documents list of locate_standard_documents has no two entries with the
\* same path and at most max_results entries.
C19_LocatedDocumentsAreDistinct ==
    Located =>
        /\ DocumentPathsDistinct
        /\ Len(LocatedDocuments) <= locateIn[1].max_results

\* the same when no two search paths are equal or nested
LocatedDocumentsDistinctWithoutOverlap ==
    (Located /\ ~SearchPathsOverlap) =>
        /\ DocumentPathsDistinct
        /\ Len(LocatedDocuments) <= locateIn[1].max_results

\* what pass 1 of the call found
PassOneOfCall ==
    LocateByPath([found |-> <<>>, searched |-> <<>>, inaccessible |-> <<>>],
                 locateIn[1].drive, SearchPathsOfCall, 1)

KeywordsOfCall ==
    Take(IF locateIn[1].custom_keywords # <<>> THEN locateIn[1].custom_keywords
         ELSE DefaultStandardKeywords, MaxSearchKeywords)

\* the document-type results of the keyword retrievals that pass 2 makes, from
\* the n-th searched path on, found being the list before that retrieval
RECURSIVE KeywordRetrieved(_, _, _)
KeywordRetrieved(found, searched_paths, n) ==
    IF n > Len(searched_paths) THEN {}
    ELSE Only({Only({
             {keyword_results.results[r] :
                 r \in {q \in 1..Len(keyword_results.results) :
                           IsStandardDoc(BaseName(keyword_results.results[q].path))}}
             \cup (IF Len(more) >= locateIn[1].max_results THEN {}
                   ELSE KeywordRetrieved(more, searched_paths, n + 1)) :
         more \in {AppendKeywordMatches(found, keyword_results.results)}}) :
         keyword_results \in
             {SearchDocuments("dir", DirAt(locateIn[1].drive, searched_paths[n]).tree,
                              KeywordsOfCall, locateIn[1].max_results - Len(found), TRUE)}})

\* pass 2 runs and its retrievals return a document-type file
PassTwoRetrieves ==
    /\ Located
    /\ Len(PassOneOfCall.found) < locateIn[1].max_results
    /\ KeywordRetrieved(PassOneOfCall.found, PassOneOfCall.searched, 1) # {}

\* C23: when pass 1 of locate_standard_documents found fewer than max_results
\* documents, every document-type file returned by the keyword retrieval of
\* pass 2 is in the output tagged keyword_match with its score and its matched
\* keywords, and the entries with a score stand before the path_match entries,
\* which carry none.
C23_KeywordMatchesAreTagged ==
    (Located /\ Len(PassOneOfCall.found) < locateIn[1].max_results) =>
        /\ \A r \in KeywordRetrieved(PassOneOfCall.found, PassOneOfCall.searched, 1) :
              \E d \in 1..Len(LocatedDocuments) :
                  /\ LocatedDocuments[d].path = r.path
                  /\ LocatedDocuments[d].source = "keyword_match"
                  /\ LocatedDocuments[d].score = Some(r.score)
                  /\ LocatedDocuments[d].matched_keywords
                         = [m \in 1..Len(r.matches) |-> r.matches[m].keyword]
        /\ \A i, j \in 1..Len(LocatedDocuments) :
              (i < j /\ LocatedDocuments[i].score = None) => LocatedDocuments[j].score = None

\* whatever pass 2 retrieves, every entry of the output is a path_match
\* without a score: pass 1 has taken every document-type file of the searched
\* directories, and pass 2 drops a result whose path is in the list already
EveryDocumentIsAPathMatch ==
    Located =>
        \A d \in 1..Len(LocatedDocuments) :
            LocatedDocuments[d].source = "path_match" /\ LocatedDocuments[d].score = None

\* pass 2 does retrieve document-type files
PassTwoNeverRetrieves == ~PassTwoRetrieves

\* the list never has more than max_results entries
LocatedDocumentsWithinMaxResults ==
    Located => Len(LocatedDocuments) <= locateIn[1].max_results

-----------------------------------------------------------------------------
(* Locating, extracting and reviewing in a row: the documents located on a *)
(* drive, the checklist extracted from one of them, and a snippet reviewed *)
(* by a CodeReviewer made with that checklist.                             *)

\* the document {guifan}/{mingming}{guifan}.md, whose only list item says, in
\* twelve characters, that variables must have meaningful names
NamingStandardItem ==
    Item("{guifan}/{mingming}{guifan}.md", "{mingming}{guifan}.md",
         <<"{guifan}", "share", "">>,
         "- {bianliang}{bixu}{shiyong}{you}{yiyi}{de}{mingcheng}", TRUE, "none")

NamingStandardDrive ==
    "{guifan}" :> [state |-> "dir", tree |-> <<NamingStandardItem>>]

ChainDrives == Drives \cup {NamingStandardDrive}

ChainCodes == {"a = 1", "{bianliang} x", "Foo bar", "never\nTabs"}

InitChain ==
    NoReview /\ NoDiff /\ NoSearch /\ NoExtract /\ NoPipeline /\ NoLocator /\ NoGuard /\ NoUpload /\ NoLocate /\ NoChain /\ NoEntry /\ NoViolation /\ NoRead /\ NoPlaced

\* locate_standard_documents(root_dir)
ChainLocate ==
    /\ chainDrive = None
    /\ \E drive \in ChainDrives :
        /\ chainDrive' = Some(drive)
        /\ chainLocated' = Some(LocateStandardDocuments(drive, <<>>, <<>>, DefaultMaxResults))
    /\ UNCHANGED <<chainExtracted, chainReviewed, reviewVars, diffVars, searchVars,
                   extractVars, pipelineVars, locatorVars, guardVars, uploadVars, locateVars,
                   entryVars, violationVars, readVars, placedVars>>

\* extract_checklist_from_document(root_dir, path) for a located document
\* that can be read
ChainExtract ==
    /\ chainLocated # None
    /\ chainExtracted = None
    /\ \E d \in 1..Len(chainLocated[1].documents) :
        \E done \in {ExtractChecklistFromDocument(chainLocated[1].documents[d].path,
                         DocumentAt(chainDrive[1], chainLocated[1].documents[d].path))} :
            /\ done.raised = None
            /\ chainExtracted' = Some([path |-> chainLocated[1].documents[d].path,
                                       result |-> done])
    /\ UNCHANGED <<chainDrive, chainLocated, chainReviewed, reviewVars, diffVars, searchVars,
                   extractVars, pipelineVars, locatorVars, guardVars, uploadVars, locateVars,
                   entryVars, violationVars, readVars, placedVars>>

\* the rules of the checklist extracted
ChainRules ==
    [r \in 1..Len(chainExtracted[1].result.checklist[1].rules) |->
        RuleFromDict(chainExtracted[1].result.checklist[1].rules[r])]

\* CodeReviewer(checklist).review_code_snippet(code)
ChainReview ==
    /\ chainExtracted # None
    /\ chainExtracted[1].result.checklist # None
    /\ chainReviewed = None
    /\ \E code \in ChainCodes :
        chainReviewed' = Some([code |-> code,
                               result |-> ReviewCodeSnippet(ChainRules, code, "<snippet>")])
    /\ UNCHANGED <<chainDrive, chainLocated, chainExtracted, reviewVars, diffVars, searchVars,
                   extractVars, pipelineVars, locatorVars, guardVars, uploadVars, locateVars,
                   entryVars, violationVars, readVars, placedVars>>

ChainReturn ==
    /\ chainDrive # None
    /\ chainDrive' = None
    /\ chainLocated' = None
    /\ chainExtracted' = None
    /\ chainReviewed' = None
    /\ UNCHANGED <<reviewVars, diffVars, searchVars, extractVars, pipelineVars, locatorVars,
                   guardVars, uploadVars, locateVars, entryVars, violationVars,
                   readVars, placedVars>>

NextChain == ChainLocate \/ ChainExtract \/ ChainReview \/ ChainReturn

SpecChain == InitChain /\ [][NextChain]_vars

-----------------------------------------------------------------------------
(* Claims about the three steps in a row.                                  *)

OnNamingStandardDrive == chainDrive = Some(NamingStandardDrive)

ChainExtractedRules == chainExtracted[1].result.checklist[1].rules

\* C16: for the single document {guifan}/{mingming}{guifan}.md whose only list
\* item is the twelve-character sentence with the word {bixu}, the locator
\* returns that document, the extractor yields exactly one Rule, of severity
\* error and category {mingming}{guifan}, and the review of "a = 1" and of
\* "{bianliang} x" against it produces no Issue.
C16_NamingStandardEndToEnd ==
    OnNamingStandardDrive =>
        /\ chainLocated # None =>
              /\ Len(chainLocated[1].documents) = 1
              /\ chainLocated[1].documents[1].path = "{guifan}/{mingming}{guifan}.md"
        /\ chainExtracted # None =>
              /\ chainExtracted[1].result.checklist # None
              /\ Len(ChainExtractedRules) = 1
              /\ ChainExtractedRules[1].severity = "error"
              /\ ChainExtractedRules[1].category = "{mingming}{guifan}"
        /\ (chainReviewed # None /\ chainReviewed[1].code \in {"a = 1", "{bianliang} x"})
              => chainReviewed[1].result.issues = <<>>

\* the three steps were made on that drive, the last one on the snippet that
\* names the variable
C16_Witness ==
    /\ OnNamingStandardDrive
    /\ chainExtracted # None
    /\ chainReviewed # None
    /\ chainReviewed[1].code = "{bianliang} x"

-----------------------------------------------------------------------------
(* The entry points of DocStore (doc_store.py:2872-3094): search,          *)
(* locate_standards, extract_checklist and review_code. A dictionary is a  *)
(* function from its keys, so that the keys present are its DOMAIN.        *)

\* {"success": False, "error": ..., <payload>: []} of the except branches
\* and of the early returns
EntryFailure(error, payload) == ("success" :> FALSE) @@ ("error" :> error) @@ payload

\* the dictionary returned and, beside it, the error the function called
\* inside reported or raised (None when it reported none)
EntryResult(returned, inner_error) == [envelope |-> returned, inner_error |-> inner_error]

\* str.split(): the words between runs of whitespace
RECURSIVE SplitWords(_)
SplitWords(s) ==
    Only({IF rest = "" THEN <<>>
          ELSE Only({<<SubSeq(rest, 1, stop - 1)>> \o SplitWords(Rest(rest, stop)) :
                   stop \in {Min({i \in 1..Len(rest) + 1 :
                                     i = Len(rest) + 1 \/ IsSpace(Ch(rest, i))})}}) :
          rest \in {LStrip(s)}})

\* list(s) of a str: its characters
Chars(s) == [i \in 1..Len(s) |-> Ch(s, i)]

\* every file and directory below the root, as rglob("*") yields them
RECURSIVE RootTree(_, _)
RootTree(drive, dirs) ==
    IF dirs = {} THEN <<>>
    ELSE Only({drive[d].tree \o RootTree(drive, dirs \ {d}) : d \in {CHOOSE x \in dirs : TRUE}})

\* r["snippets"] = [m.get("snippet", "") for m in r.get("matches", [])]: one
\* entry for each match, with text where the content matched
WithSnippets(r) ==
    r @@ ("snippets" :> [m \in 1..Len(r.matches) |->
                            [keyword |-> r.matches[m].keyword,
                             has_text |-> r.matches[m].content_match]])

SearchPayload(results, total) == ("results" :> results) @@ ("total" :> total)

\* DocStore.search(query, topk, include_content); query is None or Some(str)
DocStoreSearch(store, query, topk, include_content) ==
    IF query = None
    THEN EntryResult(EntryFailure("AttributeError", SearchPayload(<<>>, 0)),
                     Some("AttributeError"))
    ELSE Only({Only({
             EntryResult(("success" :> TRUE)
                             @@ SearchPayload([r \in 1..Len(found.results) |->
                                                  WithSnippets(found.results[r])],
                                              found.total_found),
                         IF found.error # None THEN found.error
                         ELSE IF keywords = <<>> THEN Some("no keywords") ELSE None) :
         found \in {SearchDocuments(IF store.root_exists THEN "dir" ELSE "missing",
                                    RootTree(store.drive, DOMAIN store.drive),
                                    keywords, topk, include_content)}}) :
         keywords \in {IF SplitWords(query[1]) # <<>> THEN SplitWords(query[1])
                       ELSE IF query[1] # "" THEN <<query[1]>> ELSE <<>>}})

\* DocStore.locate_standards(subdir): subdir is handed over as custom_paths,
\* whose elements are then the characters of the string; the dictionary of
\* locate_standard_documents has no "ok" and no "error"
DocStoreLocateStandards(store, subdir) ==
    Only({EntryResult(("success" :> TRUE) @@ ("files" :> located.documents), None) :
         located \in {LocateStandardDocuments(store.drive, Chars(subdir), <<>>,
                                              DefaultMaxResults)}})

\* DocStore.extract_checklist(subdir): subdir is handed over as doc_paths; the
\* dictionary of build_project_checklist has no "ok"
DocStoreExtractChecklist(store, subdir) ==
    Only({IF built.raised # None
          THEN EntryResult(EntryFailure(built.raised[1], "checklist" :> <<>>), built.raised)
          ELSE EntryResult(("success" :> TRUE)
                               @@ ("checklist" :> IF built.checklist = None THEN <<>>
                                                  ELSE built.checklist[1].rules),
                           built.error) :
         built \in {BuildProjectChecklist(store.drive, Some(Chars(subdir)), TRUE, <<>>, <<>>,
                                          DefaultMaxDocuments)}})

ReviewPayload == ("issues" :> <<>>) @@ ("summary" :> [total_issues |-> 0])

\* DocStore.review_code(snippet, file_path), each None or Some(str). The
\* issues are collected from report["files"], a key the report of review_code
\* does not have, and the total from report["total_issues"], which it keeps
\* under "summary": the list is empty and the total its length
DocStoreReviewCode(store, snippet, file_path) ==
    Only({Only({
        IF reads /\ read.kind # "file"
        THEN EntryResult(EntryFailure(read.kind, ReviewPayload), Some(read.kind))
        ELSE Only({
            IF code_content = None \/ code_content[1] = ""
            THEN EntryResult(EntryFailure("no input", ReviewPayload), Some("no input"))
            ELSE Only({
                IF ~reviewed.ok
                THEN EntryResult(EntryFailure(reviewed.error[1], ReviewPayload),
                                 reviewed.error)
                ELSE EntryResult(("success" :> TRUE) @@ ReviewPayload, None) :
                reviewed \in {ReviewCode(store.drive,
                                  ReviewInput(code_content,
                                      IF file_path # None /\ file_path[1] # ""
                                      THEN file_path ELSE Some("<snippet>"),
                                      None, None, <<>>),
                                  Only(Disks)).envelope}}) :
            code_content \in {IF reads THEN Some(read.content) ELSE snippet}}) :
        read \in {IF reads THEN DocumentAt(store.drive, file_path[1]) ELSE FileMissing}}) :
        reads \in {/\ file_path # None /\ file_path[1] # ""
                   /\ (snippet = None \/ snippet[1] = "")}})

-----------------------------------------------------------------------------
(* The roots and the arguments of the entry points.                        *)

\* a root directory that exists, with the directories of a drive or with a
\* document that cannot be read, and one that does not exist
Stores ==
    {[root_exists |-> TRUE, drive |-> drive] : drive \in LocatorDrives}
    \cup {[root_exists |-> TRUE,
           drive |-> "Standards" :> [state |-> "dir", tree |-> <<StandardItem("locked.md")>>]],
          [root_exists |-> FALSE, drive |-> <<>>]}

Queries == {None, Some(""), Some("  "), Some("naming"), Some("rules  Standards"), Some("zzz")}

Subdirs == {"", "Team", "Standards"}

Snippets == {None, Some(""), Some("Foo bar"), Some("y = 1")}

FilePaths == {None, Some(""), Some("Standards/naming.md"), Some("Standards/logo.png"), Some("a.py")}

EntryPoints == {"search", "locate_standards", "extract_checklist", "review_code"}

InitEntry ==
    NoReview /\ NoDiff /\ NoSearch /\ NoExtract /\ NoPipeline /\ NoLocator /\ NoGuard /\ NoUpload /\ NoLocate /\ NoChain /\ NoEntry /\ NoViolation /\ NoRead /\ NoPlaced

EntryCall(op, store, args, done) ==
    /\ entryIn' = Some([op |-> op, store |-> store, args |-> args])
    /\ entryOut' = Some(done)
    /\ UNCHANGED <<reviewVars, diffVars, searchVars, extractVars, pipelineVars, locatorVars,
                   guardVars, uploadVars, locateVars, chainVars, violationVars,
                   readVars, placedVars>>

DocStoreSearchCall ==
    /\ entryIn = None
    /\ \E store \in Stores, query \in Queries, topk \in TopKs, include_content \in BOOLEAN :
        \E done \in {DocStoreSearch(store, query, topk, include_content)} :
            EntryCall("search", store, <<query, topk, include_content>>, done)

DocStoreLocateStandardsCall ==
    /\ entryIn = None
    /\ \E store \in Stores, subdir \in Subdirs :
        \E done \in {DocStoreLocateStandards(store, subdir)} :
            EntryCall("locate_standards", store, <<subdir>>, done)

DocStoreExtractChecklistCall ==
    /\ entryIn = None
    /\ \E store \in Stores, subdir \in Subdirs :
        \E done \in {DocStoreExtractChecklist(store, subdir)} :
            EntryCall("extract_checklist", store, <<subdir>>, done)

DocStoreReviewCodeCall ==
    /\ entryIn = None
    /\ \E store \in Stores, snippet \in Snippets, file_path \in FilePaths :
        \E done \in {DocStoreReviewCode(store, snippet, file_path)} :
            EntryCall("review_code", store, <<snippet, file_path>>, done)

EntryReturn ==
    /\ entryIn # None
    /\ entryIn' = None
    /\ entryOut' = None
    /\ UNCHANGED <<reviewVars, diffVars, searchVars, extractVars, pipelineVars, locatorVars,
                   guardVars, uploadVars, locateVars, chainVars, violationVars,
                   readVars, placedVars>>

NextEntry ==
    \/ DocStoreSearchCall
    \/ DocStoreLocateStandardsCall
    \/ DocStoreExtractChecklistCall
    \/ DocStoreReviewCodeCall
    \/ EntryReturn

SpecEntry == InitEntry /\ [][NextEntry]_vars

-----------------------------------------------------------------------------
(* Claims about the entry points.                                          *)

Entered == entryIn # None

Envelope == entryOut[1].envelope

\* the function the entry point called reported an error or raised
InnerFailure == entryOut[1].inner_error # None

\* the key of the payload of each entry point
PayloadKey ==
    [op \in EntryPoints |->
        CASE op = "search" -> "results"
          [] op = "locate_standards" -> "files"
          [] op = "extract_checklist" -> "checklist"
          [] op = "review_code" -> "issues"]

\* C17: every entry point (search, locate standards, extract checklist,
\* review) returns, for every input and every internal failure, the envelope
\* {success, payload | error, suggestions[]}: suggestions is a key of it, on a
\* failure success is false and an error is present, on success the payload
\* is present.
C17_UniformEnvelope ==
    Entered =>
        /\ "success" \in DOMAIN Envelope
        /\ "suggestions" \in DOMAIN Envelope
        /\ InnerFailure => ~Envelope["success"] /\ "error" \in DOMAIN Envelope
        /\ Envelope["success"] => PayloadKey[entryIn[1].op] \in DOMAIN Envelope

\* every call returns a dictionary with the key success: no exception leaves
\* an entry point, the AttributeError of a query that is no string and the
\* PermissionError of an unreadable document included
EntryAlwaysReturnsEnvelope ==
    Entered => entryOut # None /\ "success" \in DOMAIN Envelope

\* a dictionary whose success is false has an error
FailureEnvelopeHasError ==
    (Entered /\ ~Envelope["success"]) => "error" \in DOMAIN Envelope

\* a dictionary whose success is true has the payload of its entry point
SuccessEnvelopeHasPayload ==
    (Entered /\ Envelope["success"]) => PayloadKey[entryIn[1].op] \in DOMAIN Envelope

\* no dictionary of an entry point has the key suggestions
NoEnvelopeHasSuggestions ==
    Entered => "suggestions" \notin DOMAIN Envelope

\* an error of the function called inside is reported as a failure
InnerFailureIsReported ==
    (Entered /\ InnerFailure) => ~Envelope["success"]

\* review_code alone reports every failure of the function it calls
ReviewFailureIsReported ==
    (Entered /\ entryIn[1].op = "review_code" /\ InnerFailure) => ~Envelope["success"]

\* DocStore.review_code has returned a success
ReviewSucceeded == Entered /\ entryIn[1].op = "review_code" /\ Envelope["success"]

\* the dictionary of the review_code(root_dir, code, file_path) that the
\* successful DocStore.review_code of the state has called
UnderlyingReview ==
    LET store == entryIn[1].store
        snippet == entryIn[1].args[1]
        file_path == entryIn[1].args[2]
        reads == /\ file_path # None /\ file_path[1] # ""
                 /\ (snippet = None \/ snippet[1] = "")
        code_content == IF reads THEN Some(DocumentAt(store.drive, file_path[1]).content)
                        ELSE snippet
    IN  ReviewCode(store.drive,
                   ReviewInput(code_content,
                               IF file_path # None /\ file_path[1] # ""
                               THEN file_path ELSE Some("<snippet>"),
                               None, None, <<>>),
                   Only(Disks)).envelope

\* the Issues of the Report, file by file
ReportIssues(file_results) == Flatten([f \in 1..Len(file_results) |-> file_results[f].issues])

\* C30: when DocStore.review_code succeeds, its issues list has one entry for
\* each Issue of the Report of the review_code it called, with the same rule
\* id, severity and line, and summary.total_issues is the total issue count of
\* that Report.
C30_IssuesMirrorReport ==
    ReviewSucceeded =>
        /\ UnderlyingReview.ok
        /\ Len(Envelope["issues"]) = Len(ReportIssues(UnderlyingReview.file_results[1]))
        /\ \A i \in 1..Len(Envelope["issues"]) :
              /\ Envelope["issues"][i].rule_id
                     = ReportIssues(UnderlyingReview.file_results[1])[i].rule_id
              /\ Envelope["issues"][i].severity
                     = ReportIssues(UnderlyingReview.file_results[1])[i].severity
              /\ Envelope["issues"][i].line
                     = ReportIssues(UnderlyingReview.file_results[1])[i].line_start
        /\ Envelope["summary"].total_issues = UnderlyingReview.report[1].total_issues

\* the Report of a successful DocStore.review_code has no Issue: its reviewer
\* works with the empty checklist the locator answers from its cache
UnderlyingReportHasNoIssue ==
    ReviewSucceeded => UnderlyingReview.report[1].total_issues = 0

\* a success for a snippet that names what the located standard forbids
ViolatingSnippetReviewed ==
    /\ ReviewSucceeded
    /\ entryIn[1].args[1] = Some("Foo bar")
    /\ UnderlyingReview.rules_count > 0

\* no successful review has a Report with an Issue
NoReviewedIssue ==
    ~(ReviewSucceeded /\ ReportIssues(UnderlyingReview.file_results[1]) # <<>>)

-----------------------------------------------------------------------------
(* One rule against code, in every mode of review (doc_store.py:2199-2512). *)

ViolationKeywords == <<"Foo", "bar">>

\* the rules: every severity, descriptions with and without a prohibition
\* term, with and without counter-examples
ViolationRules ==
    {StandardRule("STD_009", ViolationKeywords, severity, description, counter_examples) :
        severity \in {"error", "warning", "info"},
        description \in {"Foo is FORBIDDEN in bar", "Foo must be clear", "should Never Foo",
                         "Foo {bude} bar"},
        counter_examples \in {<<>>, <<" Foo Bar ">>, <<"zzz", "FOO()">>}}

ViolationLines == {"Foo bar", "  FOO()", "y = 1", "foo", "a bar b"}

ViolationCodes == {JoinLines(ls) : ls \in SeqsUpTo(ViolationLines, MaxLines) \ {<<>>}}

ViolationModes == {"predicate", "snippet", "file", "files", "diff"}

\* the code as the added lines of one file of a diff
DiffOfCode(code) ==
    RenderDiff(<<DiffFile("a.py")>>
               \o [l \in 1..Len(SplitLines(code)) |-> DiffLine("added", SplitLines(code)[l])])

InitViolation ==
    NoReview /\ NoDiff /\ NoSearch /\ NoExtract /\ NoPipeline /\ NoLocator /\ NoGuard /\ NoUpload /\ NoLocate /\ NoChain /\ NoEntry /\ NoViolation /\ NoRead /\ NoPlaced

ViolationCall(mode, rule, code, done) ==
    /\ violationIn' = Some([mode |-> mode, rule |-> rule, code |-> code])
    /\ violationOut' = Some(done)
    /\ UNCHANGED <<reviewVars, diffVars, searchVars, extractVars, pipelineVars, locatorVars,
                   guardVars, uploadVars, locateVars, chainVars, entryVars,
                   readVars, placedVars>>

\* _is_violation_pattern(rule, line, keyword) on one line
IsViolationPatternCall ==
    /\ violationIn = None
    /\ \E rule \in ViolationRules, line \in ViolationLines :
        \E done \in {IsViolationPattern(rule, line, rule.keywords[1])} :
            ViolationCall("predicate", rule, line, done)

\* review_code_snippet(code) with a checklist of the one rule
SnippetOfRuleCall ==
    /\ violationIn = None
    /\ \E rule \in ViolationRules, code \in ViolationCodes :
        \E done \in {<<ReviewCodeSnippet(<<rule>>, code, "<snippet>")>>} :
            ViolationCall("snippet", rule, code, done)

\* review_file("a.py") on a file with this content
FileOfRuleCall ==
    /\ violationIn = None
    /\ \E rule \in ViolationRules, code \in ViolationCodes :
        \E done \in {<<ReviewFile(<<rule>>, "a.py", FileWith(code))>>} :
            ViolationCall("file", rule, code, done)

\* review_files(["a.py", "b.py"]), both files with this content
FilesOfRuleCall ==
    /\ violationIn = None
    /\ \E rule \in ViolationRules, code \in ViolationCodes :
        \E done \in {ReviewFiles(<<rule>>, <<"a.py", "b.py">>,
                                 [file_path \in Paths |-> FileWith(code)])} :
            ViolationCall("files", rule, code, done)

\* review_diff of a diff that adds the lines of the code to a.py
DiffOfRuleCall ==
    /\ violationIn = None
    /\ \E rule \in ViolationRules, code \in ViolationCodes :
        \E done \in {ReviewDiff(<<rule>>, DiffOfCode(code))} :
            ViolationCall("diff", rule, code, done)

ViolationReturn ==
    /\ violationIn # None
    /\ violationIn' = None
    /\ violationOut' = None
    /\ UNCHANGED <<reviewVars, diffVars, searchVars, extractVars, pipelineVars, locatorVars,
                   guardVars, uploadVars, locateVars, chainVars, entryVars,
                   readVars, placedVars>>

NextViolation ==
    \/ IsViolationPatternCall
    \/ SnippetOfRuleCall
    \/ FileOfRuleCall
    \/ FilesOfRuleCall
    \/ DiffOfRuleCall
    \/ ViolationReturn

SpecViolation == InitViolation /\ [][NextViolation]_vars

-----------------------------------------------------------------------------
(* Claims about the violation predicate.                                   *)

ProhibitionTerms ==
    {"{jinzhi}", "{bude}", "{buyunxu}", "forbidden", "never", "must not", "shall not"}

\* the trimmed, lower-cased line contains a counter-example of the rule or is
\* contained in one, the counter-example trimmed and lower-cased as well
MatchesCounterExample(rule, line) ==
    \E k \in 1..Len(rule.counter_examples) :
        \/ Contains(Lower(Strip(line)), Lower(Strip(rule.counter_examples[k])))
        \/ Contains(Lower(Strip(rule.counter_examples[k])), Lower(Strip(line)))

HasProhibitionTerm(rule) ==
    \E term \in ProhibitionTerms : Contains(Lower(rule.description), term)

\* a rule with no counter-examples that is no error or has no prohibition term
SilentRule(rule) ==
    /\ rule.counter_examples = <<>>
    /\ rule.severity # "error" \/ ~HasProhibitionTerm(rule)

\* the number of lines of the code in which a keyword of the rule occurs
KeywordLines(rule, code) ==
    Cardinality({n \in 1..Len(SplitLines(code)) :
        \E k \in 1..Len(rule.keywords) :
            Contains(Lower(SplitLines(code)[n]), Lower(rule.keywords[k]))})

\* the issues of all the file results returned
IssuesReturned ==
    Flatten([f \in 1..Len(violationOut[1]) |-> violationOut[1][f].issues])

\* C21: the violation predicate is true for (rule, line) exactly when the
\* trimmed, lower-cased line contains or is contained in a counter-example of
\* the rule, or the rule's severity is error and its description has a
\* prohibition term; and a rule with no counter-examples that is no error, or
\* whose description has no prohibition term, yields no Issue in any mode,
\* however often its keywords occur in the code.
C21_ViolationPredicate ==
    violationIn # None =>
        /\ violationIn[1].mode = "predicate" =>
              (violationOut[1] <=>
                  \/ MatchesCounterExample(violationIn[1].rule, violationIn[1].code)
                  \/ /\ violationIn[1].rule.severity = "error"
                     /\ HasProhibitionTerm(violationIn[1].rule))
        /\ (violationIn[1].mode # "predicate" /\ SilentRule(violationIn[1].rule))
              => IssuesReturned = <<>>

\* a rule with no counter-examples and no prohibition term, of severity error,
\* was matched in the diff mode against code with its keywords on two lines
C21_Witness ==
    /\ violationIn # None
    /\ violationIn[1].mode = "diff"
    /\ SilentRule(violationIn[1].rule)
    /\ violationIn[1].rule.severity = "error"
    /\ KeywordLines(violationIn[1].rule, violationIn[1].code) = 2
    /\ violationOut[1] = <<>>

-----------------------------------------------------------------------------
(* read_text_file (doc_store.py:52-100). A file is its content, one        *)
(* character a byte.                                                       *)

\* f.readline(): the bytes up to and with the next newline, or the rest
ReadLine(rest) ==
    IF FindCh(rest, "\n", 1) = 0 THEN rest ELSE SubSeq(rest, 1, FindCh(rest, "\n", 1))

\* the while loop of read_text_file; st has the chunks read, the counters,
\* the flag and the part of the file not read yet
RECURSIVE ReadLoop(_, _, _)
ReadLoop(st, max_bytes, max_lines) ==
    IF st.read_bytes >= max_bytes \/ st.read_lines >= max_lines
    THEN [st EXCEPT !.truncated = TRUE]
    ELSE Only({
        IF line = "" THEN st
        ELSE Only({
            IF next.read_bytes >= max_bytes \/ next.read_lines >= max_lines
            THEN [next EXCEPT !.truncated = TRUE]
            ELSE ReadLoop(next, max_bytes, max_lines) :
            next \in {[content |-> st.content \o line,
                       read_bytes |-> st.read_bytes + Len(line),
                       read_lines |-> st.read_lines + 1,
                       truncated |-> FALSE,
                       rest |-> Rest(st.rest, Len(line) + 1)]}}) :
        line \in {ReadLine(st.rest)}})

\* read_text_file(root_dir, rel_file, max_bytes, max_lines), file being what
\* is at the path: the exception raised, or the dictionary returned
ReadTextFile(file, max_bytes, max_lines) ==
    IF file.kind \in {"missing", "dir"}
    THEN [raised |-> Some("PathGuardError"), returned |-> None]
    ELSE IF file.kind = "unreadable"
    THEN [raised |-> Some("PermissionError"), returned |-> None]
    ELSE Only({[raised |-> None,
                returned |-> Some([content |-> done.content, truncated |-> done.truncated,
                                   read_bytes |-> done.read_bytes,
                                   read_lines |-> done.read_lines,
                                   size_bytes |-> Len(file.content)])] :
         done \in {ReadLoop([content |-> "", read_bytes |-> 0, read_lines |-> 0,
                             truncated |-> FALSE, rest |-> file.content],
                            max_bytes, max_lines)}})

MaxReadTokens == 3
MaxReadBytes == 4
MaxReadLines == 3

\* the files: lines of one and of three bytes, with and without a last newline
ReadContents == {ConcatAll(t) : t \in SeqsUpTo({"a", "bcd", "\n"}, MaxReadTokens)}

ReadFiles == {FileMissing, FileIsDir, FileUnreadable} \cup {FileWith(c) : c \in ReadContents}

InitRead ==
    NoReview /\ NoDiff /\ NoSearch /\ NoExtract /\ NoPipeline /\ NoLocator /\ NoGuard /\ NoUpload /\ NoLocate /\ NoChain /\ NoEntry /\ NoViolation /\ NoRead /\ NoPlaced

ReadTextFileCall ==
    /\ readIn = None
    /\ \E file \in ReadFiles, max_bytes \in 0..MaxReadBytes, max_lines \in 0..MaxReadLines :
        /\ readIn' = Some([file |-> file, max_bytes |-> max_bytes, max_lines |-> max_lines])
        /\ readOut' = Some(ReadTextFile(file, max_bytes, max_lines))
    /\ UNCHANGED <<reviewVars, diffVars, searchVars, extractVars, pipelineVars, locatorVars,
                   guardVars, uploadVars, locateVars, chainVars, entryVars, violationVars,
                   placedVars>>

ReadReturn ==
    /\ readIn # None
    /\ readIn' = None
    /\ readOut' = None
    /\ UNCHANGED <<reviewVars, diffVars, searchVars, extractVars, pipelineVars, locatorVars,
                   guardVars, uploadVars, locateVars, chainVars, entryVars, violationVars,
                   placedVars>>

NextRead == ReadTextFileCall \/ ReadReturn

SpecRead == InitRead /\ [][NextRead]_vars

-----------------------------------------------------------------------------
(* Claims about read_text_file.                                            *)

\* the call returned a dictionary
WasRead == readOut # None /\ readOut[1].raised = None

ReadResult == readOut[1].returned[1]

\* C25: read_text_file never returns more than max_lines lines nor more than
\* max_bytes bytes of content (read_lines <= max_lines and read_bytes <=
\* max_bytes for every file, a file of one very long line included), and
\* truncated is true exactly when part of the file was not returned.
C25_ReadIsBounded ==
    WasRead =>
        /\ ReadResult.read_lines <= readIn[1].max_lines
        /\ ReadResult.read_bytes <= readIn[1].max_bytes
        /\ Len(ReadResult.content) <= readIn[1].max_bytes
        /\ ReadResult.truncated <=> ReadResult.content # readIn[1].file.content

\* the lines are never more than max_lines
ReadLinesWithinMaxLines ==
    WasRead => ReadResult.read_lines <= readIn[1].max_lines

\* the bytes are never more than max_bytes
ReadBytesWithinMaxBytes ==
    WasRead => ReadResult.read_bytes <= readIn[1].max_bytes

\* the bytes go over max_bytes by less than the line read last
ReadBytesOverByLessThanALine ==
    WasRead =>
        \/ ReadResult.read_bytes <= readIn[1].max_bytes
        \/ \E n \in 1..Len(ReadResult.content) :
              /\ n <= readIn[1].max_bytes
              /\ \A i \in n..(Len(ReadResult.content) - 1) : Ch(ReadResult.content, i) # "\n"

\* the content is the start of the file, read_bytes its length
ReadContentIsPrefix ==
    WasRead =>
        /\ StartsWith(readIn[1].file.content, ReadResult.content)
        /\ ReadResult.read_bytes = Len(ReadResult.content)

\* when part of the file was not returned, truncated is true
PartialReadIsTruncated ==
    (WasRead /\ ReadResult.content # readIn[1].file.content) => ReadResult.truncated

\* when truncated is true, part of the file was not returned
TruncatedReadIsPartial ==
    (WasRead /\ ReadResult.truncated) => ReadResult.content # readIn[1].file.content

-----------------------------------------------------------------------------
(* search_documents on the same tree under roots at different places       *)
(* (doc_store.py:309-320, 429-451): item.parents are the directories of    *)
(* the absolute path, those above the root included.                       *)

\* the names of the root directory and of the directories above it, as
\* Path.parents yields them: upward, the file system root last
RootLocations == {<<"share", "">>, <<"api", "mnt", "">>, <<"guide", "docs", "srv", "">>}

\* the parents of an item below the root (the items are written under share)
ParentsBelowRoot(item) == SubSeq(item.parents, 1, Len(item.parents) - 2)

\* the item of a tree whose root is at the location
PlaceUnder(item, location) == [item EXCEPT !.parents = ParentsBelowRoot(item) \o location]

PlaceTree(tree, location) == [i \in 1..Len(tree) |-> PlaceUnder(tree[i], location)]

InitPlaced ==
    NoReview /\ NoDiff /\ NoSearch /\ NoExtract /\ NoPipeline /\ NoLocator /\ NoGuard /\ NoUpload /\ NoLocate /\ NoChain /\ NoEntry /\ NoViolation /\ NoRead /\ NoPlaced

\* search_documents(root, keywords, ".", top_k, include_content) for the two
\* roots
PlacedSearchCall ==
    /\ placedIn = None
    /\ \E tree \in Trees, keywords \in KeywordLists, include_content \in BOOLEAN,
          first \in RootLocations, second \in RootLocations :
        /\ keywords # <<>>
        /\ first # second
        /\ placedIn' = Some([tree |-> tree, keywords |-> keywords,
                             include_content |-> include_content,
                             first |-> first, second |-> second])
        /\ placedOut' = Some(<<SearchDocuments("dir", PlaceTree(tree, first), keywords,
                                               MaxItems, include_content),
                               SearchDocuments("dir", PlaceTree(tree, second), keywords,
                                               MaxItems, include_content)>>)
    /\ UNCHANGED <<reviewVars, diffVars, searchVars, extractVars, pipelineVars, locatorVars,
                   guardVars, uploadVars, locateVars, chainVars, entryVars, violationVars,
                   readVars>>

PlacedReturn ==
    /\ placedIn # None
    /\ placedIn' = None
    /\ placedOut' = None
    /\ UNCHANGED <<reviewVars, diffVars, searchVars, extractVars, pipelineVars, locatorVars,
                   guardVars, uploadVars, locateVars, chainVars, entryVars, violationVars,
                   readVars>>

NextPlaced == PlacedSearchCall \/ PlacedReturn

SpecPlaced == InitPlaced /\ [][NextPlaced]_vars

-----------------------------------------------------------------------------
(* Claims about the place of the root.                                     *)

\* the matching relative paths of a result, each with its score
ScoredPaths(out) == {<<out.results[r].path, out.results[r].score>> : r \in 1..Len(out.results)}

\* a keyword of the call occurs in the name of a directory of the location
KeywordInLocation(location) ==
    \E k \in 1..Len(placedIn[1].keywords), p \in 1..Len(location) :
        Contains(Lower(location[p]), Lower(placedIn[1].keywords[k]))

\* every dir_match of the result is due to a directory below the root
DirMatchesBelowRoot(out) ==
    \A r \in 1..Len(out.results) :
        \A m \in 1..Len(out.results[r].matches) :
            out.results[r].matches[m].dir_match =>
                \E i \in 1..Len(placedIn[1].tree) :
                    /\ placedIn[1].tree[i].path = out.results[r].path
                    /\ \E p \in 1..Len(ParentsBelowRoot(placedIn[1].tree[i])) :
                          Contains(Lower(ParentsBelowRoot(placedIn[1].tree[i])[p]),
                                   Lower(out.results[r].matches[m].keyword))

\* C29: the result of search_documents depends only on the tree under the
\* search directory and on the keywords: two identical trees under roots at
\* different absolute locations give the same matching relative paths with the
\* same scores, and no directory name above the root produces a dir_match.
C29_ResultIndependentOfRootLocation ==
    placedOut # None =>
        /\ ScoredPaths(placedOut[1][1]) = ScoredPaths(placedOut[1][2])
        /\ DirMatchesBelowRoot(placedOut[1][1])
        /\ DirMatchesBelowRoot(placedOut[1][2])

\* the same, when no keyword occurs in the name of the root or of a directory
\* above it, at either location
ResultIndependentWithoutKeywordAbove ==
    (/\ placedOut # None
     /\ ~KeywordInLocation(placedIn[1].first)
     /\ ~KeywordInLocation(placedIn[1].second))
    => /\ ScoredPaths(placedOut[1][1]) = ScoredPaths(placedOut[1][2])
       /\ DirMatchesBelowRoot(placedOut[1][1])
       /\ DirMatchesBelowRoot(placedOut[1][2])

\* the paths returned are the same relative paths whenever both locations
\* match or both do not: the location changes matches and scores, never the
\* form of a path
PlacedPathsAreOfTheTree ==
    placedOut # None =>
        \A n \in 1..2 :
            ResultPaths(placedOut[1][n])
                \subseteq {placedIn[1].tree[i].path : i \in 1..Len(placedIn[1].tree)}

=============================================================================
